---- MODULE Spec2Model ----
(***************************************************************************)
(* Model of the opencode.jsonc reconciliation of opencode-palantir:        *)
(* src/palantir-mcp/opencode-config.ts (patchConfigForSetup,               *)
(* patchConfigForRescan and their helpers) and the command driver          *)
(* setupPalantirMcp / rescanPalantirMcpTools.                              *)
(*                                                                         *)
(* JSON values are tagged records.  An object is an ORDERED list of        *)
(* <<key, value>> pairs, because JSON.stringify emits keys in insertion    *)
(* order and the serialized text is what the claims compare.  A string is  *)
(* a sequence of symbols; an object key is a sequence of symbols too, so   *)
(* that startsWith('palantir-mcp_') is computed on the key itself.         *)
(***************************************************************************)
EXTENDS Integers, Sequences, FiniteSets, TLC

(***************************************************************************)
(* Bounds                                                                  *)
(***************************************************************************)
MaxToolNames == 2
MaxRuns == 2
MaxCommands == 1
MaxTasks == 4
MaxLimit == 3

(***************************************************************************)
(* State                                                                   *)
(***************************************************************************)
VARIABLES
  \* calls of the patch functions on an in-memory document
  doc,      \* the configuration document (PatchResult.data of the last call)
  given,    \* the document the last call was given
  callerInput, \* the object passed to the last call, as the caller sees it afterwards
  op,       \* "init", "setup" or "rescan": the last call
  options,  \* the options of the last call
  warnings, \* PatchResult.warnings of the last call
  summary,  \* PatchResult.summary of the last call
  runs,     \* number of calls made so far
  \* the commands /setup-palantir-mcp and /rescan-palantir-mcp-tools in a worktree
  files,    \* the worktree: opencode.jsonc, opencode.json, backups, temporary files
  found,    \* the worktree as the last command found it
  token,    \* process.env.FOUNDRY_TOKEN ("" when it is not set)
  cmd,      \* the last command: its name, arguments and what its collaborators did
  report,   \* the text the last command returned
  commands, \* number of commands run so far
  \* the documentation fetch of src/docs/write-parquet.ts
  pool,     \* one call of withConcurrencyLimit: its tasks, counters and results
  retry     \* one call of fetchWithRetry: its loop, the responses it met, its outcome

patchVars == <<doc, given, callerInput, op, options, warnings, summary, runs>>
driverVars == <<files, found, token, cmd, report, commands>>
docsVars == <<pool, retry>>
vars == <<doc, given, callerInput, op, options, warnings, summary, runs,
          files, found, token, cmd, report, commands, pool, retry>>

(***************************************************************************)
(* With([x \in {v} |-> body]) is body with x naming the value of v.  The   *)
(* value is computed once and then named, the way a const declaration or   *)
(* a parameter of the source holds a value that was computed once.         *)
(***************************************************************************)
With(f) == CHOOSE r \in {g[CHOOSE a \in DOMAIN g : TRUE] : g \in {f}} : TRUE

(***************************************************************************)
(* JSON values                                                             *)
(***************************************************************************)
JUndefined == [t |-> "undefined"]
JNull == [t |-> "null"]
JStr(s) == [t |-> "string", s |-> s]
JBool(b) == [t |-> "boolean", b |-> b]
JNum(n) == [t |-> "number", n |-> n]
JArr(a) == [t |-> "array", a |-> a]
JObj(kv) == [t |-> "object", kv |-> kv]

isRecord(value) == value.t = "object"

\* the position of key among the entries of obj; 0 when obj has no such key
KeyIndex(obj, key) ==
  With([kv \in {obj.kv}, k \in {key} |->
    IF \E i \in 1..Len(kv) : kv[i][1] = k
      THEN CHOOSE i \in 1..Len(kv) : kv[i][1] = k
      ELSE 0])

HasKey(obj, key) == KeyIndex(obj, key) # 0

\* obj[key]: the value, or undefined when the key is absent
Get(obj, key) ==
  With([o \in {obj} |->
    With([idx \in {KeyIndex(o, key)} |->
      IF idx # 0 THEN o.kv[idx][2] ELSE JUndefined])])

\* obj[key] = value: an existing key keeps its position, a new key is appended
Put(obj, key, value) ==
  With([o \in {obj}, k \in {key} |->
    With([idx \in {KeyIndex(o, k)} |->
      IF idx # 0
        THEN JObj([o.kv EXCEPT ![idx] = <<k, value>>])
        ELSE JObj(Append(o.kv, <<k, value>>))])])

\* delete obj[key]
Del(obj, key) ==
  JObj(SelectSeq(obj.kv, LAMBDA p : p[1] # key))

ObjectKeys(obj) == With([kv \in {obj.kv} |-> [i \in 1..Len(kv) |-> kv[i][1]]])

(***************************************************************************)
(* Keys and literals of opencode-config.ts                                 *)
(***************************************************************************)
PALANTIR_PREFIX == "palantir-mcp_"
K_schema == <<"$schema">>
K_meta == <<"palantir_mcp">>
K_tools == <<"tools">>
K_mcp == <<"mcp">>
K_agent == <<"agent">>
K_server == <<"palantir-mcp">>
K_globalDeny == <<PALANTIR_PREFIX, "*">>
K_mode == <<"mode">>
K_hidden == <<"hidden">>
K_description == <<"description">>
K_prompt == <<"prompt">>
K_type == <<"type">>
K_command == <<"command">>
K_environment == <<"environment">>
K_token == <<"FOUNDRY_TOKEN">>
K_getDocPage == <<"get_doc_page">>
K_listAllDocs == <<"list_all_docs">>

ManagedAgents == {"foundry-librarian", "foundry"}

SCHEMA_URL == JStr(<<"https://opencode.ai/config.json">>)
TOKEN_PLACEHOLDER == JStr(<<"{env:FOUNDRY_TOKEN}">>)
URL_FLAG == JStr(<<"--foundry-api-url">>)

toolKey(toolName) == <<PALANTIR_PREFIX, toolName>>

\* k.startsWith('palantir-mcp_')
startsWithPrefix(k) == Len(k) >= 1 /\ k[1] = PALANTIR_PREFIX


(***************************************************************************)
(* String helpers (String.prototype.trim / trimEnd / indexOf / replace)    *)
(***************************************************************************)
IsSpace(c) == c \in {" ", "\n"}
IsSeparator(c) == c \in {"|", "-"}

RECURSIVE trimEnd(_)
trimEnd(s) ==
  With([t \in {s} |->
    IF t = <<>> THEN t
    ELSE IF IsSpace(t[Len(t)]) THEN trimEnd(SubSeq(t, 1, Len(t) - 1))
    ELSE t])

RECURSIVE trimStart(_)
trimStart(s) ==
  With([t \in {s} |->
    IF t = <<>> THEN t
    ELSE IF IsSpace(t[1]) THEN trimStart(Tail(t))
    ELSE t])

trim(s) == trimEnd(trimStart(s))

\* s.indexOf(needle), 1-based; 0 stands for JavaScript's -1
indexOf(s, needle) ==
  With([t \in {s}, n \in {needle} |->
    With([hits \in {{i \in 1..(Len(t) - Len(n) + 1) : SubSeq(t, i, i + Len(n) - 1) = n}} |->
      IF hits = {} THEN 0 ELSE CHOOSE i \in hits : \A j \in hits : i <= j])])

\* whether t, as a whole, matches  \s*(?:\||-)\s*
MatchesSeparatorTail(t) ==
  \E j \in 1..Len(t) :
    /\ IsSeparator(t[j])
    /\ \A i \in 1..Len(t) : i # j => IsSpace(t[i])

\* s.replace(/(?:\s*(?:\||-)\s*)$/, ''): the leftmost match anchored at the end
removeTrailingSeparator(s) ==
  With([t \in {s} |->
    With([starts \in {{i \in 1..Len(t) :
                         With([tail \in {SubSeq(t, i, Len(t))} |->
                           MatchesSeparatorTail(tail)])}} |->
      IF starts = {} THEN t
      ELSE SubSeq(t, 1, (CHOOSE i \in starts : \A j \in starts : i <= j) - 1)])])

(***************************************************************************)
(* Generated note in agent descriptions                                    *)
(***************************************************************************)
GENERATED_NOTE_PREFIX == <<"Generated by opencode-palantir ", "/setup-palantir-mcp.">>

buildGeneratedNote(profile) ==
  GENERATED_NOTE_PREFIX \o
    <<" ", "Profile: ", profile, ". Edit palantir-mcp_* tool flags below to reject tools.">>

\* mutant: the previous note is not cut off
stripGeneratedNote_keepsNote(description) ==
  trim(description)

stripGeneratedNote(description) ==
  With([d \in {description} |->
    With([idx \in {indexOf(d, GENERATED_NOTE_PREFIX)} |->
      IF idx = 0 THEN trim(d)
      ELSE trimEnd(removeTrailingSeparator(trimEnd(SubSeq(d, 1, idx - 1))))])])

defaultDescription(agentName) ==
  IF agentName = "foundry-librarian"
    THEN <<"Foundry exploration and context gathering (parallel-friendly)">>
    ELSE <<"Foundry execution agent (uses only enabled palantir-mcp tools)">>

defaultPrompt(agentName) ==
  IF agentName = "foundry-librarian"
    THEN <<"You are the Foundry librarian.", "\n", "\n",
           "- Focus on exploration and context gathering.", "\n",
           "- Split independent exploration tasks and run them in parallel when possible.", "\n",
           "- Return compact summaries and cite the tool calls you ran.", "\n",
           "- Avoid dumping massive schemas unless explicitly asked.">>
    ELSE <<"You are the Foundry execution agent.", "\n", "\n",
           "- Use only enabled palantir-mcp tools.", "\n",
           "- Prefer working from summaries produced by @foundry-librarian.", "\n",
           "- Keep operations focused and deterministic.">>

(***************************************************************************)
(* Helpers of opencode-config.ts working on a JSON object                  *)
(***************************************************************************)
\* ensureObject(parent, key): the parent after the call; parent[key] is a record
ensureObject(parent, key) ==
  With([p \in {parent} |->
    IF isRecord(Get(p, key)) THEN p ELSE Put(p, key, JObj(<<>>))])

removeUnsupportedPalantirMeta(data) ==
  With([d \in {data} |->
    IF Get(d, K_meta) # JUndefined THEN Del(d, K_meta) ELSE d])

ensureSchema(data) ==
  With([d \in {data} |->
    IF Get(d, K_schema) = JUndefined THEN Put(d, K_schema, SCHEMA_URL) ELSE d])

\* mutant: the entry carries the value FOUNDRY_TOKEN has in the environment
newMcpServer_literalToken(foundryApiUrl) ==
  JObj(<< <<K_type, JStr(<<"local">>)>>,
          <<K_command, JArr(<<JStr(<<"npx">>), JStr(<<"-y">>), JStr(<<"palantir-mcp">>),
                              URL_FLAG, JStr(foundryApiUrl)>>)>>,
          <<K_environment, JObj(<< <<K_token, JStr(<<token>>)>> >>)>> >>)

newMcpServer(foundryApiUrl) ==
  JObj(<< <<K_type, JStr(<<"local">>)>>,
          <<K_command, JArr(<<JStr(<<"npx">>), JStr(<<"-y">>), JStr(<<"palantir-mcp">>),
                              URL_FLAG, JStr(foundryApiUrl)>>)>>,
          <<K_environment, JObj(<< <<K_token, TOKEN_PLACEHOLDER>> >>)>> >>)

\* mutant: the server entry is written on every setup
ensureMcpServer_overwrite(data, foundryApiUrl) ==
  With([d1 \in {ensureObject(data, K_mcp)} |->
    Put(d1, K_mcp, Put(Get(d1, K_mcp), K_server, newMcpServer(foundryApiUrl)))])

ensureMcpServer(data, foundryApiUrl) ==
  With([d1 \in {ensureObject(data, K_mcp)} |->
    With([mcp \in {Get(d1, K_mcp)} |->
      IF Get(mcp, K_server) # JUndefined THEN d1
      ELSE Put(d1, K_mcp, Put(mcp, K_server, newMcpServer(foundryApiUrl)))])])

\* mutant: the wildcard deny is written only when it is absent
ensureGlobalDeny_ifAbsent(data) ==
  With([d1 \in {ensureObject(data, K_tools)} |->
    With([tools \in {Get(d1, K_tools)} |->
      IF Get(tools, K_globalDeny) # JUndefined THEN d1
      ELSE Put(d1, K_tools, Put(tools, K_globalDeny, JBool(FALSE)))])])

\* mutant: the tools map is replaced by one that holds the wildcard deny alone
ensureGlobalDeny_freshTools(data) ==
  Put(data, K_tools, JObj(<< <<K_globalDeny, JBool(FALSE)>> >>))

ensureGlobalDeny(data) ==
  With([d1 \in {ensureObject(data, K_tools)} |->
    Put(d1, K_tools, Put(Get(d1, K_tools), K_globalDeny, JBool(FALSE)))])

\* mutant: the agents other than the two managed ones are dropped
ensureAgentBase_dropsOthers(data, agentName) ==
  With([d1 \in {ensureObject(data, K_agent)} |->
    Put(d1, K_agent,
        ensureObject(JObj(SelectSeq(Get(d1, K_agent).kv,
                                    LAMBDA e : e[1] \in {<<"foundry-librarian">>, <<"foundry">>})),
                     <<agentName>>))])

\* ensureAgentBase(data, agentName): data after the call; agent[agentName] is a record
ensureAgentBase(data, agentName) ==
  With([d1 \in {ensureObject(data, K_agent)} |->
    Put(d1, K_agent, ensureObject(Get(d1, K_agent), <<agentName>>))])

\* mutant: an empty prompt counts as a missing one (!agent.prompt)
ensureAgentDefaults_truthyPrompt(agent, agentName) ==
  With([a1 \in {With([a \in {agent} |->
                  IF Get(a, K_mode).t # "string"
                    THEN Put(a, K_mode, JStr(<<"subagent">>)) ELSE a])} |->
  With([a2 \in {IF Get(a1, K_hidden).t # "boolean"
                  THEN Put(a1, K_hidden, JBool(FALSE)) ELSE a1} |->
  With([a3 \in {IF Get(a2, K_description).t # "string"
                  THEN Put(a2, K_description, JStr(defaultDescription(agentName)))
                  ELSE a2} |->
    IF Get(a3, K_prompt).t # "string" \/ Get(a3, K_prompt) = JStr(<<>>)
      THEN Put(a3, K_prompt, JStr(defaultPrompt(agentName))) ELSE a3])])])

\* mutant: mode is set to the default whatever it was
ensureAgentDefaults_forceMode(agent, agentName) ==
  With([a1 \in {Put(agent, K_mode, JStr(<<"subagent">>))} |->
  With([a2 \in {IF Get(a1, K_hidden).t # "boolean"
                  THEN Put(a1, K_hidden, JBool(FALSE)) ELSE a1} |->
  With([a3 \in {IF Get(a2, K_description).t # "string"
                  THEN Put(a2, K_description, JStr(defaultDescription(agentName)))
                  ELSE a2} |->
    IF Get(a3, K_prompt).t # "string"
      THEN Put(a3, K_prompt, JStr(defaultPrompt(agentName))) ELSE a3])])])

ensureAgentDefaults(agent, agentName) ==
  With([a1 \in {With([a \in {agent} |->
                  IF Get(a, K_mode).t # "string"
                    THEN Put(a, K_mode, JStr(<<"subagent">>)) ELSE a])} |->
  With([a2 \in {IF Get(a1, K_hidden).t # "boolean"
                  THEN Put(a1, K_hidden, JBool(FALSE)) ELSE a1} |->
  With([a3 \in {IF Get(a2, K_description).t # "string"
                  THEN Put(a2, K_description, JStr(defaultDescription(agentName)))
                  ELSE a2} |->
    IF Get(a3, K_prompt).t # "string"
      THEN Put(a3, K_prompt, JStr(defaultPrompt(agentName))) ELSE a3])])])

\* mutant: the note is appended without stripping the previous one
annotateAgentDescription_append(agent, agentName, profile, mode) ==
  With([a \in {agent} |->
  With([raw \in {Get(a, K_description)} |->
  With([description \in {IF raw.t = "string" THEN raw.s
                         ELSE defaultDescription(agentName)} |->
  With([shouldAnnotate \in {\/ mode = "setup"
                            \/ indexOf(description, GENERATED_NOTE_PREFIX) # 0
                            \/ trim(description) = defaultDescription(agentName)} |->
    IF ~shouldAnnotate THEN a
    ELSE Put(a, K_description,
             JStr(IF description # <<>>
                    THEN description \o <<" ", "|", " ">> \o buildGeneratedNote(profile)
                    ELSE buildGeneratedNote(profile)))])])])])

\* mutant: rescan annotates whatever the description is
annotateAgentDescription_rescanAlways(agent, agentName, profile, mode) ==
  With([a \in {agent} |->
  With([raw \in {Get(a, K_description)} |->
  With([description \in {IF raw.t = "string" THEN raw.s
                         ELSE defaultDescription(agentName)} |->
  With([base \in {stripGeneratedNote(description)} |->
    Put(a, K_description,
        JStr(IF base # <<>>
               THEN base \o <<" ", "|", " ">> \o buildGeneratedNote(profile)
               ELSE buildGeneratedNote(profile)))])])])])

annotateAgentDescription(agent, agentName, profile, mode) ==
  With([a \in {agent} |->
  With([raw \in {Get(a, K_description)} |->
  With([description \in {IF raw.t = "string" THEN raw.s
                         ELSE defaultDescription(agentName)} |->
  With([shouldAnnotate \in {\/ mode = "setup"
                            \/ indexOf(description, GENERATED_NOTE_PREFIX) # 0
                            \/ trim(description) = defaultDescription(agentName)} |->
    IF ~shouldAnnotate THEN a
    ELSE With([base \in {stripGeneratedNote(description)} |->
           Put(a, K_description,
               JStr(IF base # <<>>
                      THEN base \o <<" ", "|", " ">> \o buildGeneratedNote(profile)
                      ELSE buildGeneratedNote(profile)))])])])])])

\* mutant: the two defaults are written whether or not the keys are present
ensureDocsToolDefaults_overwrite(tools, agentName) ==
  With([dflt \in {JBool(agentName = "foundry-librarian")} |->
    Put(Put(tools, K_getDocPage, dflt), K_listAllDocs, dflt)])

ensureDocsToolDefaults(tools, agentName) ==
  With([dflt \in {JBool(agentName = "foundry-librarian")} |->
  With([t1 \in {With([t \in {tools} |->
                  IF Get(t, K_getDocPage) = JUndefined
                    THEN Put(t, K_getDocPage, dflt) ELSE t])} |->
    IF Get(t1, K_listAllDocs) = JUndefined THEN Put(t1, K_listAllDocs, dflt) ELSE t1])])

\* mutant: only a toggle that is switched on counts as an existing toggle
hasPalantirToggles_enabledOnly(tools) ==
  With([kv \in {tools.kv} |->
    \E i \in 1..Len(kv) : startsWithPrefix(kv[i][1]) /\ kv[i][2] = JBool(TRUE)])

hasPalantirToggles(tools) ==
  With([kv \in {tools.kv} |-> \E i \in 1..Len(kv) : startsWithPrefix(kv[i][1])])

(***************************************************************************)
(* Tool names: Array.from(new Set(toolNames)).sort(localeCompare)          *)
(***************************************************************************)
ToolOrder == <<"a", "b">>
ToolUniverse == {ToolOrder[i] : i \in 1..Len(ToolOrder)}

LocaleRank(name) == CHOOSE i \in 1..Len(ToolOrder) : ToolOrder[i] = name

\* a.localeCompare(b): negative, zero or positive
localeCompare(a, b) == LocaleRank(a) - LocaleRank(b)

\* Array.from(new Set(names)): first occurrences, in order
RECURSIVE uniqueNames(_)
uniqueNames(names) ==
  With([ns \in {names} |->
    IF ns = <<>> THEN <<>>
    ELSE With([front \in {uniqueNames(SubSeq(ns, 1, Len(ns) - 1))},
               last \in {ns[Len(ns)]} |->
           IF \E i \in 1..Len(front) : front[i] = last THEN front
           ELSE Append(front, last)])])

\* insert name into the sorted sequence, after the elements that do not compare greater
RECURSIVE insertSorted(_, _)
insertSorted(sorted, name) ==
  With([s \in {sorted}, n \in {name} |->
    IF s = <<>> THEN <<n>>
    ELSE IF localeCompare(s[Len(s)], n) <= 0 THEN Append(s, n)
    ELSE Append(insertSorted(SubSeq(s, 1, Len(s) - 1), n), s[Len(s)])])

RECURSIVE sortNames(_)
sortNames(names) ==
  With([ns \in {names} |->
    IF ns = <<>> THEN <<>>
    ELSE insertSorted(sortNames(SubSeq(ns, 1, Len(ns) - 1)), ns[Len(ns)])])

\* mutant: the names are deduplicated but left in discovery order
toolNamesSorted_discoveryOrder(toolNames) == uniqueNames(toolNames)

toolNamesSorted(toolNames) == sortNames(uniqueNames(toolNames))

(***************************************************************************)
(* applyToolToggles / countEnabledPalantirToggles                          *)
(***************************************************************************)
\* one iteration of the loop of applyToolToggles, for the tool `name`
\* mutant: rescan writes every discovered tool's toggle
toggleOne_rescanOverwrites(tools, name, allow, mode, preserveExisting) ==
  With([t \in {tools}, k \in {toolKey(name)}, enabled \in {JBool(name \in allow)} |->
    IF mode = "rescan" THEN Put(t, k, enabled)
    ELSE IF preserveExisting /\ Get(t, k) # JUndefined THEN t
    ELSE Put(t, k, enabled)])

\* mutant: only the tools of the allow set get a toggle
toggleOne_onlyAllowed(tools, name, allow, mode, preserveExisting) ==
  With([t \in {tools}, k \in {toolKey(name)} |->
    IF Get(t, k) # JUndefined \/ name \notin allow THEN t
    ELSE Put(t, k, JBool(TRUE))])

\* mutant: a missing toggle is written as false whatever the allow set says
toggleOne_denyNew(tools, name, allow, mode, preserveExisting) ==
  With([t \in {tools}, k \in {toolKey(name)} |->
    IF mode = "rescan"
      THEN IF Get(t, k) # JUndefined THEN t ELSE Put(t, k, JBool(FALSE))
      ELSE IF preserveExisting /\ Get(t, k) # JUndefined THEN t
           ELSE Put(t, k, JBool(FALSE))])

\* mutant: setup regenerates every discovered tool's toggle
toggleOne_setupOverwrites(tools, name, allow, mode, preserveExisting) ==
  With([t \in {tools}, k \in {toolKey(name)}, enabled \in {JBool(name \in allow)} |->
    IF mode = "rescan"
      THEN IF Get(t, k) # JUndefined THEN t ELSE Put(t, k, enabled)
      ELSE Put(t, k, enabled)])

toggleOne(tools, name, allow, mode, preserveExisting) ==
  With([t \in {tools}, k \in {toolKey(name)}, enabled \in {JBool(name \in allow)} |->
    IF mode = "rescan"
      THEN IF Get(t, k) # JUndefined THEN t ELSE Put(t, k, enabled)
      ELSE IF preserveExisting /\ Get(t, k) # JUndefined THEN t
           ELSE Put(t, k, enabled)])

RECURSIVE toggleLoop(_, _, _, _, _)
toggleLoop(tools, names, allow, mode, preserveExisting) ==
  With([ns \in {names}, al \in {allow}, preserve \in {preserveExisting} |->
    IF ns = <<>> THEN tools
    ELSE toggleLoop(toggleOne(tools, ns[1], al, mode, preserve), Tail(ns), al, mode, preserve)])

\* mutant: toggles of tools that are not in the list are dropped first
applyToolToggles_dropsStale(tools, toolNames, allow, mode) ==
  With([t \in {JObj(SelectSeq(tools.kv,
                  LAMBDA p : ~startsWithPrefix(p[1])
                             \/ \E i \in 1..Len(toolNames) : p[1] = toolKey(toolNames[i])))} |->
  With([preserveExisting \in {hasPalantirToggles(t)} |->
    [tools |-> toggleLoop(t, toolNamesSorted(toolNames), allow, mode, preserveExisting),
     preservedExisting |-> preserveExisting]])])

applyToolToggles(tools, toolNames, allow, mode) ==
  With([t \in {tools} |->
  With([preserveExisting \in {hasPalantirToggles(t)} |->
    [tools |-> toggleLoop(t, toolNamesSorted(toolNames), allow, mode, preserveExisting),
     preservedExisting |-> preserveExisting]])])

\* mutant: every toggle that is not false or null counts (if (tools[k]))
countEnabledPalantirToggles_truthy(tools, names) ==
  With([t \in {tools}, ns \in {names} |->
    Cardinality({i \in 1..Len(ns) :
                   Get(t, toolKey(ns[i])) \notin {JUndefined, JNull, JBool(FALSE)}})])

RECURSIVE countEnabledPalantirToggles(_, _)
countEnabledPalantirToggles(tools, names) ==
  With([t \in {tools}, ns \in {names} |->
    IF ns = <<>> THEN 0
    ELSE (IF Get(t, toolKey(ns[1])) = JBool(TRUE) THEN 1 ELSE 0)
           + countEnabledPalantirToggles(t, Tail(ns))])

(***************************************************************************)
(* patchConfigForSetup / patchConfigForRescan                              *)
(***************************************************************************)
AgentOf(data, agentName) == Get(Get(data, K_agent), <<agentName>>)

PutAgent(data, agentName, agent) ==
  With([d \in {data} |->
    Put(d, K_agent, Put(Get(d, K_agent), <<agentName>>, agent))])

\* ensureAgentBase, ensureAgentDefaults, annotateAgentDescription,
\* ensureObject(agent, 'tools') and ensureDocsToolDefaults for one managed agent
prepareAgent(data, agentName, profile, mode) ==
  With([d1 \in {ensureAgentBase(data, agentName)} |->
  With([a1 \in {ensureAgentDefaults(AgentOf(d1, agentName), agentName)} |->
  With([a2 \in {annotateAgentDescription(a1, agentName, profile, mode)} |->
  With([a3 \in {ensureObject(a2, K_tools)} |->
  With([a4 \in {Put(a3, K_tools, ensureDocsToolDefaults(Get(a3, K_tools), agentName))} |->
    PutAgent(d1, agentName, a4)])])])])])

AgentTools(data, agentName) == Get(AgentOf(data, agentName), K_tools)

PutAgentTools(data, agentName, tools) ==
  With([d \in {data} |->
    PutAgent(d, agentName, Put(AgentOf(d, agentName), K_tools, tools))])

WARN_PRESERVED_SETUP ==
  <<"Existing palantir-mcp_* tool toggles were preserved; delete them under the Foundry agents to fully regenerate.">>
WARN_PRESERVED_RESCAN ==
  <<"Existing palantir-mcp_* tool toggles were preserved (not overwritten). Delete them under the Foundry agents to fully regenerate.">>

\* the part shared by both modes once the top-level entries are in place
patchAgents(data, opts, mode) ==
  With([o \in {opts} |->
  With([d1 \in {prepareAgent(data, "foundry-librarian", o.profile, mode)} |->
  With([d2 \in {prepareAgent(d1, "foundry", o.profile, mode)} |->
  With([libApply \in {applyToolToggles(AgentTools(d2, "foundry-librarian"), o.toolNames,
                                       o.allowlist.librarianAllow, mode)},
        foundryApply \in {applyToolToggles(AgentTools(d2, "foundry"), o.toolNames,
                                           o.allowlist.foundryAllow, mode)},
        sorted \in {toolNamesSorted(o.toolNames)} |->
  With([d3 \in {PutAgentTools(d2, "foundry-librarian", libApply.tools)},
        preservedExistingToggles \in
          {libApply.preservedExisting \/ foundryApply.preservedExisting} |->
  With([d4 \in {PutAgentTools(d3, "foundry", foundryApply.tools)} |->
    [data |-> d4,
     warnings |-> IF preservedExistingToggles
                    THEN <<IF mode = "setup" THEN WARN_PRESERVED_SETUP
                                             ELSE WARN_PRESERVED_RESCAN>>
                    ELSE <<>>,
     summary |-> [profile |-> o.profile,
                  toolCount |-> Len(sorted),
                  librarianEnabled |->
                    countEnabledPalantirToggles(libApply.tools, sorted),
                  foundryEnabled |->
                    countEnabledPalantirToggles(foundryApply.tools, sorted),
                  preservedExistingToggles |-> preservedExistingToggles]]])])])])])])

\* The object the caller passed, after the call.  const data = { ...input }
\* copies the top-level entries only: an object held under tools, mcp or
\* agent is one object reachable from both input and data, ensureObject
\* returns it, and the helpers assign into it.  The other changes (the
\* deleted palantir_mcp, the added $schema, a container made anew) are made
\* to data alone.
inputAfterCall(input, data) ==
  With([before \in {input}, after \in {data} |->
    JObj([i \in 1..Len(before.kv) |->
            IF before.kv[i][1] \in {K_tools, K_mcp, K_agent} /\ isRecord(before.kv[i][2])
              THEN <<before.kv[i][1], Get(after, before.kv[i][1])>>
              ELSE before.kv[i]])])

patchConfigForSetup(input, opts) ==
  With([o \in {opts} |->
  With([d1 \in {ensureSchema(input)} |->
  With([d2 \in {removeUnsupportedPalantirMeta(d1)} |->
  With([d3 \in {ensureGlobalDeny(d2)} |->
  With([d4 \in {ensureMcpServer(d3, o.foundryApiUrl)} |->
    patchAgents(d4, o, "setup")])])])])])

patchConfigForRescan(input, opts) ==
  With([o \in {opts} |->
  With([d1 \in {ensureSchema(input)} |->
  With([d2 \in {removeUnsupportedPalantirMeta(d1)} |->
  With([d3 \in {ensureGlobalDeny(d2)} |->
    patchAgents(d3, o, "rescan")])])])])

(***************************************************************************)
(* stringifyJsonc: JSON.stringify(data, null, 2) + '\n', as a token list.  *)
(* Members are emitted in insertion order; the indentation follows from    *)
(* the nesting and is left out.                                            *)
(***************************************************************************)
\* texts.join(',')
RECURSIVE joinWithCommas(_)
joinWithCommas(texts) ==
  With([ts \in {texts} |->
    IF ts = <<>> THEN <<>>
    ELSE IF Len(ts) = 1 THEN ts[1]
    ELSE ts[1] \o <<",">> \o joinWithCommas(Tail(ts))])

RECURSIVE JsonText(_), JsonMembers(_), JsonElements(_)
JsonText(v) ==
  With([w \in {v} |->
    CASE w.t = "object" -> <<"{">> \o JsonMembers(w.kv) \o <<"}">>
      [] w.t = "array" -> <<"[">> \o JsonElements(w.a) \o <<"]">>
      [] w.t = "string" -> <<"\"">> \o w.s \o <<"\"">>
      [] w.t = "boolean" -> <<IF w.b THEN "true" ELSE "false">>
      [] w.t = "number" -> <<"#", ToString(w.n)>>
      [] OTHER -> <<"null">>])

JsonMembers(kv) ==
  With([ms \in {kv} |->
    joinWithCommas([i \in 1..Len(ms) |->
                      <<"\"">> \o ms[i][1] \o <<"\"", ":">> \o JsonText(ms[i][2])])])

JsonElements(a) ==
  With([es \in {a} |-> joinWithCommas([i \in 1..Len(es) |-> JsonText(es[i])])])

stringifyJsonc(data) == JsonText(data) \o <<"\n">>

(***************************************************************************)
(* Inputs: profiles, URLs, tool lists, allowlists, starting documents      *)
(***************************************************************************)
\* ProfileId: a closed set of identifiers with an "unknown" fallback
Profiles == {"unknown", "pipelines", "compute", "default"}

URL_ONE == <<"https://one.palantirfoundry.com">>
URL_TWO == <<"https://two.palantirfoundry.com">>
NormalizedUrls == {URL_ONE, URL_TWO}

\* all tool-name lists of length 0..n over the tool universe
RECURSIVE ToolListsUpTo(_)
ToolListsUpTo(n) ==
  IF n = 0 THEN {<<>>}
  ELSE LET shorter == ToolListsUpTo(n - 1)
       IN shorter \cup {Append(l, x) : l \in shorter, x \in ToolUniverse}

\* discovery results handed to the patch: the driver rejects an empty list
ToolLists == ToolListsUpTo(MaxToolNames) \ {<<>>}

NamesOf(toolNames) == With([ns \in {toolNames} |-> {ns[i] : i \in 1..Len(ns)}])

\* computeAllowedTools(profile, toolNames): per agent, the subset of the discovered
\* tools that a fixed policy table enables; the decision for a tool depends only on
\* (profile, tool, agent).  The table gives every tool each of the four
\* (librarian, foundry) decisions under some profile.
AllowPolicy(profile) ==
  CASE profile = "unknown" -> [librarianAllow |-> {}, foundryAllow |-> {}]
    [] profile = "pipelines" -> [librarianAllow |-> {"a"}, foundryAllow |-> {"b"}]
    [] profile = "compute" -> [librarianAllow |-> {"b"}, foundryAllow |-> {"a"}]
    [] OTHER -> [librarianAllow |-> ToolUniverse, foundryAllow |-> ToolUniverse]

computeAllowedTools(profile, toolNames) ==
  With([policy \in {AllowPolicy(profile)}, discovered \in {NamesOf(toolNames)} |->
    [librarianAllow |-> policy.librarianAllow \cap discovered,
     foundryAllow |-> policy.foundryAllow \cap discovered]])

UserAgent(mode, hidden, description, prompt, tools) ==
  JObj(<< <<K_mode, mode>>, <<K_hidden, hidden>>, <<K_description, description>>,
          <<K_prompt, prompt>>, <<K_tools, tools>> >>)

\* a descriptor as a previous run with another profile left it, then edited by the user
DESC_ANNOTATED ==
  <<"my", " ", "agent", " ", "-", " ", "|", " ">> \o buildGeneratedNote("pipelines")

\* user text that contains only the first half of the marker
DESC_PARTIAL == <<"see", " ", GENERATED_NOTE_PREFIX[1], "docs", " ", "-">>

SERVER_CUSTOM ==
  JObj(<< <<K_type, JStr(<<"local">>)>>,
          <<K_command, JArr(<<JStr(<<"custom">>), JStr(<<"command">>)>>)>>,
          <<K_environment, JObj(<< <<K_token, TOKEN_PLACEHOLDER>> >>)>> >>)

\* the entry as a setup for URL_ONE writes it
SERVER_ONE ==
  JObj(<< <<K_type, JStr(<<"local">>)>>,
          <<K_command, JArr(<<JStr(<<"npx">>), JStr(<<"-y">>), JStr(<<"palantir-mcp">>),
                              URL_FLAG, JStr(URL_ONE)>>)>>,
          <<K_environment, JObj(<< <<K_token, TOKEN_PLACEHOLDER>> >>)>> >>)

SERVER_REMOTE ==
  JObj(<< <<K_type, JStr(<<"remote">>)>>,
          <<<<"url">>, JStr(<<"https://mcp.example.com">>)>> >>)

DOC_EMPTY == JObj(<<>>)

\* a document written by hand: every managed entry is present and customised
DOC_USER ==
  JObj(<< <<K_meta, JObj(<< <<<<"profile">>, JStr(<<"old">>)>> >>)>>,
          <<<<"plugin">>, JArr(<<JStr(<<"x">>)>>)>>,
          <<K_tools, JObj(<< <<K_globalDeny, JBool(TRUE)>>,
                             <<<<"other_tool">>, JBool(TRUE)>> >>)>>,
          <<K_mcp, JObj(<< <<<<"other-server">>, SERVER_REMOTE>>,
                           <<K_server, SERVER_CUSTOM>> >>)>>,
          <<K_agent,
            JObj(<< <<<<"build">>, JObj(<< <<K_mode, JStr(<<"primary">>)>> >>)>>,
                    <<<<"foundry">>,
                      UserAgent(JStr(<<"primary">>), JBool(TRUE), JStr(<<"my", " ", "agent">>),
                                JStr(<<"be", " ", "brief">>),
                                JObj(<< <<toolKey("b"), JBool(TRUE)>>,
                                        <<K_getDocPage, JBool(TRUE)>> >>))>>,
                    <<<<"foundry-librarian">>,
                      UserAgent(JStr(<<"all">>), JBool(FALSE), JStr(DESC_ANNOTATED),
                                JStr(<<>>),
                                JObj(<< <<toolKey("a"), JBool(FALSE)>>,
                                        <<toolKey("zz"), JBool(TRUE)>> >>))>> >>)>>,
          <<K_schema, JStr(<<"https://example.com/schema.json">>)>> >>)

\* a document whose managed entries exist but have the wrong JSON type
DOC_MISTYPED ==
  JObj(<< <<K_schema, JNull>>,
          <<K_tools, JArr(<<JStr(<<"x">>)>>)>>,
          <<K_mcp, JObj(<< <<K_server, JNull>> >>)>>,
          <<K_agent,
            JObj(<< <<<<"foundry-librarian">>, JStr(<<"off">>)>>,
                    <<<<"foundry">>,
                      UserAgent(JNum(1), JStr(<<"yes">>), JNull, JArr(<<>>),
                                JStr(<<"none">>))>> >>)>> >>)

\* a document as a previous setup left it, with the server pointing at URL_ONE
DOC_CONFIGURED ==
  JObj(<< <<K_schema, SCHEMA_URL>>,
          <<K_tools, JObj(<< <<K_globalDeny, JBool(FALSE)>> >>)>>,
          <<K_mcp, JObj(<< <<K_server, SERVER_ONE>> >>)>>,
          <<K_agent,
            JObj(<< <<<<"foundry-librarian">>,
                      JObj(<< <<K_description,
                                JStr(<<" ">> \o defaultDescription("foundry-librarian")
                                       \o <<"\n">>)>>,
                              <<K_tools, JObj(<< <<K_listAllDocs, JBool(FALSE)>> >>)>> >>)>>,
                    <<<<"foundry">>,
                      JObj(<< <<K_description, JStr(DESC_PARTIAL)>>,
                              <<K_hidden, JBool(TRUE)>> >>)>> >>)>> >>)

\* descriptions that exercise stripGeneratedNote: separators, blanks, bare marker
DOC_NOTES ==
  JObj(<< <<K_mcp, JStr(<<"none">>)>>,
          <<K_agent,
            JObj(<< <<<<"foundry-librarian">>,
                      JObj(<< <<K_description,
                                JStr(<<"-", " ">> \o GENERATED_NOTE_PREFIX \o <<"x">>)>> >>)>>,
                    <<<<"foundry">>,
                      JObj(<< <<K_description, JStr(<<" ", "\n">>)>>,
                              <<K_prompt, JStr(<<"p">>)>> >>)>> >>)>> >>)

\* a description that carries the marker twice
DESC_TWICE ==
  <<"notes", " ", "|", " ">> \o buildGeneratedNote("compute")
    \o <<" ", "|", " ">> \o buildGeneratedNote("pipelines")

\* a document edited loosely: a description with two notes, and toggles of
\* discovered tools whose values are not booleans
DOC_LOOSE ==
  JObj(<< <<K_agent,
            JObj(<< <<<<"foundry-librarian">>,
                      JObj(<< <<K_description, JStr(DESC_TWICE)>>,
                              <<K_tools, JObj(<< <<toolKey("b"), JStr(<<"ask">>)>> >>)>> >>)>>,
                    <<<<"foundry">>,
                      JObj(<< <<K_tools, JObj(<< <<toolKey("a"), JNull>> >>)>> >>)>> >>)>> >>)

InitDocs == {DOC_EMPTY, DOC_USER, DOC_MISTYPED, DOC_CONFIGURED, DOC_NOTES, DOC_LOOSE}

(***************************************************************************)
(* The worktree.  A file is missing, unreadable (fs.readFile throws), text *)
(* that does not parse, or JSON text together with the value it parses to. *)
(* backups holds opencode.json.bak (index 0) and opencode.json.bak.<i>;    *)
(* tmp counts the temporary files left next to opencode.jsonc.             *)
(***************************************************************************)
FileMissing == [kind |-> "missing"]
FileUnreadable == [kind |-> "unreadable"]
FileGarbage == [kind |-> "garbage"]
FileOf(data) ==
  With([d \in {data} |-> [kind |-> "json", data |-> d, text |-> stringifyJsonc(d)]])

OPENCODE_JSONC_FILENAME == "opencode.jsonc"
OPENCODE_JSON_FILENAME == "opencode.json"

pathExists(file) == file.kind # "missing"

readFile(file, name) ==
  With([f \in {file} |->
    CASE f.kind = "missing" -> [ok |-> FALSE, missing |-> TRUE]
      [] f.kind = "unreadable" ->
           [ok |-> FALSE, error |-> <<"[ERROR] Failed reading ", name>>]
      [] f.kind = "garbage" ->
           [ok |-> FALSE, error |-> <<"[ERROR] Failed parsing ", name>>]
      [] OTHER -> [ok |-> TRUE, path |-> name, text |-> f.text, data |-> f.data]])

readOpencodeJsonc(fs) == readFile(fs.jsonc, OPENCODE_JSONC_FILENAME)

readLegacyOpencodeJson(fs) == readFile(fs.legacy, OPENCODE_JSON_FILENAME)

\* { ...source, ...target }: the keys of source in their order, then the keys
\* only target has; a key both have carries target's value
spread(source, target) ==
  With([s \in {source}, t \in {target} |->
    JObj([i \in 1..Len(s.kv) |->
            IF HasKey(t, s.kv[i][1])
              THEN <<s.kv[i][1], Get(t, s.kv[i][1])>>
              ELSE s.kv[i]]
         \o SelectSeq(t.kv, LAMBDA p : ~HasKey(s, p[1])))])

\* The loop over Object.entries(source) assigns out[k] for every key k of
\* source and leaves the other entries of out as the spread made them.
RECURSIVE deepMergePreferTarget(_, _)
deepMergePreferTarget(target, source) ==
  With([t \in {target}, s \in {source} |->
    IF ~isRecord(t) \/ ~isRecord(s)
      THEN (IF t \in {JNull, JUndefined} THEN s ELSE t)
      ELSE With([out \in {spread(s, t)} |->
             JObj([i \in 1..Len(out.kv) |->
                     IF ~HasKey(s, out.kv[i][1]) THEN out.kv[i]
                     ELSE With([k \in {out.kv[i][1]} |->
                          With([sourceVal \in {Get(s, k)}, targetVal \in {Get(t, k)} |->
                            IF targetVal = JUndefined THEN <<k, sourceVal>>
                            ELSE IF isRecord(targetVal) /\ isRecord(sourceVal)
                              THEN <<k, deepMergePreferTarget(targetVal, sourceVal)>>
                            ELSE <<k, targetVal>>])])])])])

\* mutant: the two documents change places, so the legacy values win
mergeLegacyIntoJsonc_legacyWins(legacyData, jsoncData) ==
  With([l \in {legacyData}, j \in {jsoncData} |->
    deepMergePreferTarget(IF isRecord(l) THEN l ELSE JObj(<<>>),
                          IF isRecord(j) THEN j ELSE JObj(<<>>))])

mergeLegacyIntoJsonc(legacyData, jsoncData) ==
  With([l \in {legacyData}, j \in {jsoncData} |->
    deepMergePreferTarget(IF isRecord(j) THEN j ELSE JObj(<<>>),
                          IF isRecord(l) THEN l ELSE JObj(<<>>))])

\* mutant: fs.writeFile goes to opencode.jsonc itself and there is no rename
writeFileAtomic_inPlace(fs, data, text, fault) ==
  With([f \in {fault} |->
    CASE f = "writeFile" -> [threw |-> TRUE, fs |-> fs]
      [] f = "partial" -> [threw |-> TRUE, fs |-> [fs EXCEPT !.jsonc = FileGarbage]]
      [] OTHER ->
           [threw |-> FALSE,
            fs |-> [fs EXCEPT !.jsonc = [kind |-> "json", data |-> data, text |-> text]]]])

\* fs.writeFile to a temporary file, then fs.rename onto opencode.jsonc.
\* fault: "none"; "writeFile" (it throws and leaves nothing); "partial" (it
\* throws after creating the temporary file); "rename" (the rename throws)
writeFileAtomic(fs, data, text, fault) ==
  With([f \in {fault} |->
    CASE f = "none" ->
           [threw |-> FALSE,
            fs |-> [fs EXCEPT !.jsonc = [kind |-> "json", data |-> data, text |-> text]]]
      [] f = "writeFile" -> [threw |-> TRUE, fs |-> fs]
      [] OTHER -> [threw |-> TRUE, fs |-> [fs EXCEPT !.tmp = @ + 1]]])

BackupIndices(fs) == {b.index : b \in fs.backups}

\* mutant: opencode.json.bak is taken whether or not it exists
freeBakPath_alwaysBak(fs) == 0

\* the first of opencode.json.bak, .bak.1, .bak.2, ... that does not exist
freeBakPath(fs) ==
  With([taken \in {BackupIndices(fs)} |->
    CHOOSE i \in 0..Cardinality(taken) :
      /\ i \notin taken
      /\ \A j \in 0..(i - 1) : j \in taken])

NoBakPath == [none |-> TRUE]

renameLegacyToBak(fs, renameFails) ==
  With([w \in {fs} |->
    IF ~pathExists(w.legacy) THEN [threw |-> FALSE, bakPath |-> NoBakPath, fs |-> w]
    ELSE IF renameFails THEN [threw |-> TRUE, bakPath |-> NoBakPath, fs |-> w]
    ELSE With([free \in {freeBakPath(w)} |->
           [threw |-> FALSE,
            bakPath |-> [index |-> free],
            fs |-> [w EXCEPT !.legacy = FileMissing,
                             !.backups = @ \cup {[index |-> free, file |-> w.legacy]}]]])])

getString(obj, key) ==
  With([v \in {Get(obj, key)} |-> IF v.t = "string" THEN v ELSE JNull])

\* the string that follows '--foundry-api-url' in the command of a local
\* mcp['palantir-mcp'] entry, or null
\* mutant: the existing entry is never read for its URL
extractFoundryApiUrlFromMcpConfig_ignoresEntry(data) == JNull

extractFoundryApiUrlFromMcpConfig(data) ==
  With([mcp \in {Get(data, K_mcp)} |->
    IF ~isRecord(mcp) THEN JNull
    ELSE With([server \in {Get(mcp, K_server)} |->
      IF ~isRecord(server) THEN JNull
      ELSE IF getString(server, K_type) # JStr(<<"local">>) THEN JNull
      ELSE With([command \in {Get(server, K_command)} |->
        IF command.t # "array" THEN JNull
        ELSE With([args \in {SelectSeq(command.a, LAMBDA x : x.t = "string")} |->
          With([hits \in {{i \in 1..Len(args) : args[i] = URL_FLAG}} |->
            IF hits = {} THEN JNull
            ELSE With([idx \in {CHOOSE i \in hits : \A j \in hits : i <= j} |->
              IF idx + 1 > Len(args) THEN JNull
              ELSE IF args[idx + 1].s = <<>> THEN JNull
              ELSE args[idx + 1]])])])])])])

(***************************************************************************)
(* Collaborators of the commands                                           *)
(***************************************************************************)
URL_ONE_SLOPPY == <<"one.palantirfoundry.com/workspace">>
URL_INVALID == <<"not a url">>
WARN_NORMALIZED == <<"Normalized Foundry URL to ", URL_ONE[1]>>

\* normalize-url.ts: a URL with its warnings, or an error
normalizeFoundryBaseUrl(raw) ==
  CASE raw = URL_ONE -> [url |-> URL_ONE, warnings |-> <<>>]
    [] raw = URL_TWO -> [url |-> URL_TWO, warnings |-> <<>>]
    [] raw = URL_ONE_SLOPPY -> [url |-> URL_ONE, warnings |-> <<WARN_NORMALIZED>>]
    [] OTHER -> [error |-> "Invalid Foundry URL"]

\* scanRepoForProfile throws ("throws") or returns a profile
resolveProfile(scan) == IF scan = "throws" THEN "unknown" ELSE scan

\* what the command line is given
RawArgs ==
  {<<" ">>, <<" ">> \o URL_ONE \o <<"\n">>, URL_TWO, URL_ONE_SLOPPY, URL_INVALID}

Threw == [throws |-> TRUE, names |-> <<>>]
Listed(names) == [throws |-> FALSE, names |-> names]

\* what the server at each URL does when asked for its tools: the call
\* throws, or returns tool names
Discoveries ==
  {[u \in NormalizedUrls |-> Threw],
   [u \in NormalizedUrls |-> IF u = URL_ONE THEN Listed(<<>>) ELSE Listed(<<"a">>)],
   [u \in NormalizedUrls |-> IF u = URL_ONE THEN Listed(<<"a">>) ELSE Listed(<<"b", "a">>)],
   [u \in NormalizedUrls |-> IF u = URL_ONE THEN Listed(<<"b", "a">>) ELSE Threw]}

\* mcp-client.ts: the outcome of asking the server at url for its tools
listPalantirMcpTools(url, world) == world.discovery[url]

Scans == {"throws", "pipelines"}

WriteFaults == {"none", "writeFile", "partial", "rename"}

\* everything outside the worktree that one command run meets
Worlds ==
  [scan : Scans, discovery : Discoveries, write : WriteFaults, renameFails : BOOLEAN]

Tokens == {"tokA", "tokB"}

(***************************************************************************)
(* Reports.  A report is a list of lines; a line is a list of symbols.     *)
(***************************************************************************)
IsBlank(part) == With([ls \in {part} |-> \A i \in 1..Len(ls) : trim(ls[i]) = <<>>])

\* parts.filter((x) => x.trim().length > 0).join('\n')
RECURSIVE joinParts(_)
joinParts(parts) ==
  With([ps \in {parts} |->
    IF ps = <<>> THEN <<>>
    ELSE (IF IsBlank(ps[1]) THEN <<>> ELSE ps[1]) \o joinParts(Tail(ps))])

formatWarnings(ws) ==
  With([w \in {ws} |->
    IF Len(w) = 0 THEN <<>>
    ELSE << <<>>, <<>>, <<"Warnings:">> >> \o [i \in 1..Len(w) |-> <<"- ">> \o w[i]]])

formatPatchSummary(patch) ==
  With([s \in {patch.summary} |->
    << <<"Profile: ", s.profile>>,
       <<"Discovered palantir-mcp tools: ", ToString(s.toolCount)>>,
       <<"Enabled (foundry-librarian): ", ToString(s.librarianEnabled)>>,
       <<"Enabled (foundry): ", ToString(s.foundryEnabled)>> >>
    \o (IF s.preservedExistingToggles
          THEN << <<"Note: existing palantir-mcp_* tool toggles were preserved; delete them under the Foundry agents to fully regenerate.">> >>
          ELSE <<>>)])

ERR_MISSING_URL ==
  << <<"[ERROR] Missing Foundry base URL.">>, <<>>, <<"Usage:">>,
     <<"  /setup-palantir-mcp <foundry_api_url>">>, <<>>, <<"Example:">>,
     <<"  /setup-palantir-mcp https://23dimethyl.usw-3.palantirfoundry.com">> >>

ERR_NO_TOKEN ==
  << <<"[ERROR] FOUNDRY_TOKEN is not set in your environment.">>, <<>>,
     <<"palantir-mcp tool discovery requires a token. Export FOUNDRY_TOKEN and retry.">>,
     <<>>,
     <<"Tip: if echo $FOUNDRY_TOKEN prints a value but this still errors, it is likely not exported.">>,
     <<"Run export FOUNDRY_TOKEN (or set export FOUNDRY_TOKEN=... in your shell secrets) and retry.">> >>

ERR_DISCOVERY_THREW == << <<"[ERROR] ", "tool discovery failed">> >>
ERR_NO_TOOLS == << <<"[ERROR] palantir-mcp tool discovery returned no tools.">> >>
ERR_WRITE == << <<"[ERROR] Failed writing ", OPENCODE_JSONC_FILENAME>> >>
ERR_MISSING_JSONC ==
  << <<"[ERROR] Missing ", OPENCODE_JSONC_FILENAME,
       ". Run /setup-palantir-mcp <foundry_api_url> first.">> >>
ERR_NOT_OBJECT ==
  << <<"[ERROR] ", OPENCODE_JSONC_FILENAME, " must contain a JSON object at the root.">> >>
ERR_NO_SERVER_URL ==
  << <<"[ERROR] Could not find mcp.palantir-mcp local server with --foundry-api-url in config.">>,
     <<"Run /setup-palantir-mcp <foundry_api_url> first.">> >>

BakPathText(bakPath) ==
  IF bakPath.index = 0 THEN <<"opencode.json.bak">>
  ELSE <<"opencode.json.bak.", ToString(bakPath.index)>>

MismatchLine(url) ==
  <<"mcp.palantir-mcp already exists and points to ">> \o url
    \o <<"; it was left unchanged.">>

\* mutant: the legacy file has been renamed before the write was tried, so a
\* failed write leaves it renamed
Returned_renamedFirst(fs, complete, lines, asked) ==
  [files |-> IF lines = ERR_WRITE THEN renameLegacyToBak(fs, FALSE).fs ELSE fs,
   complete |-> complete, lines |-> lines, asked |-> asked]

\* mutant: a command that returns an error leaves a temporary file behind
Returned_leavesTemp(fs, complete, lines, asked) ==
  [files |-> IF complete THEN fs ELSE [fs EXCEPT !.tmp = @ + 1],
   complete |-> complete, lines |-> lines, asked |-> asked]

\* a command's outcome: the worktree it leaves, its report, whether the report
\* is the completion report, and the URLs it asked listPalantirMcpTools about
Returned(fs, complete, lines, asked) ==
  [files |-> fs, complete |-> complete, lines |-> lines, asked |-> asked]

\* mutant: the warning is given whenever the existing entry names a URL
mismatchWarning_always(existingMcpUrlNorm, normalized) ==
  IF "url" \in DOMAIN existingMcpUrlNorm
    THEN <<MismatchLine(existingMcpUrlNorm.url)>>
    ELSE <<>>

\* the warning setupPalantirMcp adds when the existing entry points elsewhere
mismatchWarning(existingMcpUrlNorm, normalized) ==
  IF "url" \in DOMAIN existingMcpUrlNorm /\ existingMcpUrlNorm.url # normalized.url
    THEN <<MismatchLine(existingMcpUrlNorm.url)>>
    ELSE <<>>

NoExistingUrl == [none |-> TRUE]
setupPalantirMcp(fs, FOUNDRY_TOKEN, rawArgs, world) ==
  With([urlArg \in {trim(rawArgs)} |->
  IF urlArg = <<>> THEN Returned(fs, FALSE, ERR_MISSING_URL, <<>>)
  ELSE
  With([normalized \in {normalizeFoundryBaseUrl(urlArg)} |->
  IF "error" \in DOMAIN normalized
    THEN Returned(fs, FALSE, << <<"[ERROR] ", normalized.error>> >>, <<>>)
  ELSE IF FOUNDRY_TOKEN = "" THEN Returned(fs, FALSE, ERR_NO_TOKEN, <<>>)
  ELSE
  With([readJsonc \in {readOpencodeJsonc(fs)} |->
  IF ~readJsonc.ok /\ "error" \in DOMAIN readJsonc
    THEN Returned(fs, FALSE, <<readJsonc.error>>, <<>>)
  ELSE
  With([readLegacy \in {readLegacyOpencodeJson(fs)} |->
  IF ~readLegacy.ok /\ "error" \in DOMAIN readLegacy
    THEN Returned(fs, FALSE, <<readLegacy.error>>, <<>>)
  ELSE
  With([baseJsoncData \in {IF readJsonc.ok THEN readJsonc.data ELSE JObj(<<>>)} |->
  With([base \in {IF isRecord(baseJsoncData) THEN baseJsoncData ELSE JObj(<<>>)} |->
  With([merged \in {IF readLegacy.ok THEN mergeLegacyIntoJsonc(readLegacy.data, base)
                    ELSE base} |->
  With([existingMcpUrlRaw \in {extractFoundryApiUrlFromMcpConfig(merged)} |->
  With([existingMcpUrlNorm \in {IF existingMcpUrlRaw # JNull
                                  THEN normalizeFoundryBaseUrl(existingMcpUrlRaw.s)
                                  ELSE NoExistingUrl},
        profile \in {resolveProfile(world.scan)} |->
  With([discoveryUrl \in {IF "url" \in DOMAIN existingMcpUrlNorm
                            THEN existingMcpUrlNorm.url ELSE normalized.url} |->
  With([listed \in {listPalantirMcpTools(discoveryUrl, world)} |->
  IF listed.throws THEN Returned(fs, FALSE, ERR_DISCOVERY_THREW, <<discoveryUrl>>)
  ELSE
  With([toolNames \in {listed.names} |->
  IF Len(toolNames) = 0 THEN Returned(fs, FALSE, ERR_NO_TOOLS, <<discoveryUrl>>)
  ELSE
  With([allowlist \in {computeAllowedTools(profile, toolNames)} |->
  With([patch \in {patchConfigForSetup(merged,
                     [foundryApiUrl |-> normalized.url, toolNames |-> toolNames,
                      profile |-> profile, allowlist |-> allowlist])} |->
  With([text \in {stringifyJsonc(patch.data)} |->
  With([written \in {writeFileAtomic(fs, patch.data, text, world.write)} |->
  IF written.threw THEN Returned(written.fs, FALSE, ERR_WRITE, <<discoveryUrl>>)
  ELSE
  With([renamed \in {IF readLegacy.ok
                       THEN renameLegacyToBak(written.fs, world.renameFails)
                       ELSE [threw |-> FALSE, bakPath |-> NoBakPath, fs |-> written.fs]} |->
  With([bakInfo \in
          {IF ~readLegacy.ok THEN <<>>
           ELSE IF renamed.threw
             THEN << <<>>, <<"[ERROR] Wrote ", OPENCODE_JSONC_FILENAME,
                            ", but failed to rename legacy ", readLegacy.path>> >>
           ELSE IF renamed.bakPath # NoBakPath
             THEN << <<>>, <<"Migrated legacy ", readLegacy.path, " -> ">>
                             \o BakPathText(renamed.bakPath) >>
           ELSE <<>>},
        allWarnings \in {normalized.warnings \o patch.warnings
                           \o mismatchWarning(existingMcpUrlNorm, normalized)} |->
    Returned(renamed.fs, TRUE,
             joinParts(<< << <<"palantir-mcp setup complete.">> >>,
                          << <<>> >>,
                          formatPatchSummary(patch),
                          bakInfo,
                          formatWarnings(allWarnings) >>),
             <<discoveryUrl>>)
  ])])])])])])])])])])])])])])])])])])

rescanPalantirMcpTools(fs, FOUNDRY_TOKEN, world) ==
  IF FOUNDRY_TOKEN = "" THEN Returned(fs, FALSE, ERR_NO_TOKEN, <<>>)
  ELSE
  With([readJsonc \in {readOpencodeJsonc(fs)} |->
  IF ~readJsonc.ok
    THEN (IF "missing" \in DOMAIN readJsonc
            THEN Returned(fs, FALSE, ERR_MISSING_JSONC, <<>>)
            ELSE Returned(fs, FALSE, <<readJsonc.error>>, <<>>))
  ELSE
  With([baseData \in {readJsonc.data} |->
  IF ~isRecord(baseData) THEN Returned(fs, FALSE, ERR_NOT_OBJECT, <<>>)
  ELSE
  With([foundryUrlRaw \in {extractFoundryApiUrlFromMcpConfig(baseData)} |->
  IF foundryUrlRaw = JNull THEN Returned(fs, FALSE, ERR_NO_SERVER_URL, <<>>)
  ELSE
  With([normalized \in {normalizeFoundryBaseUrl(foundryUrlRaw.s)} |->
  IF "error" \in DOMAIN normalized
    THEN Returned(fs, FALSE,
                  << <<"[ERROR] Invalid Foundry URL in config: ", normalized.error>> >>,
                  <<>>)
  ELSE
  With([profile \in {resolveProfile(world.scan)},
        listed \in {listPalantirMcpTools(normalized.url, world)} |->
  IF listed.throws THEN Returned(fs, FALSE, ERR_DISCOVERY_THREW, <<normalized.url>>)
  ELSE
  With([toolNames \in {listed.names} |->
  IF Len(toolNames) = 0 THEN Returned(fs, FALSE, ERR_NO_TOOLS, <<normalized.url>>)
  ELSE
  With([allowlist \in {computeAllowedTools(profile, toolNames)} |->
  With([patch \in {patchConfigForRescan(baseData,
                     [toolNames |-> toolNames, profile |-> profile,
                      allowlist |-> allowlist])} |->
  With([text \in {stringifyJsonc(patch.data)} |->
  With([written \in {writeFileAtomic(fs, patch.data, text, world.write)} |->
  IF written.threw THEN Returned(written.fs, FALSE, ERR_WRITE, <<normalized.url>>)
  ELSE
  With([allWarnings \in {normalized.warnings \o patch.warnings} |->
    Returned(written.fs, TRUE,
             joinParts(<< << <<"palantir-mcp tools rescan complete.">> >>,
                          << <<>> >>,
                          formatPatchSummary(patch),
                          formatWarnings(allWarnings) >>),
             <<normalized.url>>)
  ])])])])])])])])])])])

(***************************************************************************)
(* src/docs/write-parquet.ts: fetchWithRetry.  A thrown value is a record   *)
(* that says whether it is an Error; a response carries its status.        *)
(***************************************************************************)
MAX_RETRIES == 3
BASE_DELAY_MS == 1000
BACKOFF_FACTOR == 2
JITTER_PERCENT == 25

\* error instanceof Error ? error : new Error(String(error))
toError(error) ==
  With([e \in {error} |->
    IF e.isError THEN e ELSE [isError |-> TRUE, kind |-> "wrapped", of |-> e.value]])

\* mutant: client errors are retried too
isRetryable_always(status) == status >= 400

isRetryable(status) == status >= 500

\* Math.random() is given in hundredths, 0 <= random < 100; the delay is in
\* ms, rounded down
computeDelay(attempt, random) ==
  With([base \in {BASE_DELAY_MS * BACKOFF_FACTOR ^ attempt},
        jitter \in {100 - JITTER_PERCENT + (random * JITTER_PERCENT * 2) \div 100} |->
    (base * jitter) \div 100])

\* what one call of fetch(url) can end with
NETWORK_ERROR == [isError |-> TRUE, kind |-> "network"]
Response(status) == [status |-> status, ok |-> status \in 200..299]
FetchOutcomes ==
  {[threw |-> TRUE, error |-> NETWORK_ERROR]}
    \cup {[threw |-> FALSE, response |-> Response(s)] : s \in {200, 404, 500, 503}}

\* new Error(`HTTP ${response.status} ${response.statusText} for ${url}`)
HttpError(response, address) ==
  [isError |-> TRUE, kind |-> "http", status |-> response.status, url |-> address]

\* new Error(`Failed to fetch ${url} after ${MAX_RETRIES} retries`)
GaveUpError(address) == [isError |-> TRUE, kind |-> "gave up", url |-> address]

NoError == [isError |-> FALSE, kind |-> "null"]

\* the state of the call fetchWithRetry(url) when it starts
NewRetry(address) ==
  [url |-> address, attempt |-> 0, pc |-> "fetch", lastError |-> NoError,
   fetches |-> 0, met |-> <<>>, waited |-> <<>>, outcome |-> [kind |-> "pending"]]

\* no call of fetchWithRetry is in progress
NoRetry == [NewRetry("") EXCEPT !.pc = "idle"]

Throws(r, error) == [r EXCEPT !.pc = "threw", !.outcome = [kind |-> "threw", error |-> error]]

Returns(r, response) ==
  [r EXCEPT !.pc = "returned", !.outcome = [kind |-> "returned", response |-> response]]

\* attempt++ and the loop test; after the loop, throw lastError ?? new Error(...)
nextAttempt(r) ==
  With([q \in {r} |->
    IF q.attempt + 1 <= MAX_RETRIES
      THEN [q EXCEPT !.attempt = @ + 1, !.pc = "delay"]
      ELSE Throws(q, IF q.lastError = NoError THEN GaveUpError(q.url) ELSE q.lastError)])

\* the loop body from the settling of fetch(url) on
afterFetch(r, fetched) ==
  With([q \in {[r EXCEPT !.fetches = @ + 1, !.met = Append(@, fetched)]}, f \in {fetched} |->
    IF f.threw
      THEN With([failed \in {[q EXCEPT !.lastError = toError(f.error)]} |->
             IF failed.attempt < MAX_RETRIES THEN nextAttempt(failed)
             ELSE Throws(failed, failed.lastError)])
    ELSE IF f.response.ok THEN Returns(q, f.response)
    ELSE IF ~isRetryable(f.response.status) THEN Throws(q, HttpError(f.response, q.url))
    ELSE With([failed \in {[q EXCEPT !.lastError = HttpError(f.response, q.url)]} |->
           IF failed.attempt = MAX_RETRIES THEN Throws(failed, failed.lastError)
           ELSE nextAttempt(failed)])])

(***************************************************************************)
(* src/docs/write-parquet.ts: withConcurrencyLimit.  A task is a function   *)
(* that returns a promise.  Its phases: "queued" (not called), "pending"   *)
(* (called, the promise not settled), "settled" (the promise settled, the  *)
(* callbacks not run), "recorded" (the then or catch callback has run),    *)
(* "finished" (the finally callback has run).                              *)
(***************************************************************************)
\* what task i's promise can settle with; fetchFragment rejects with an Error
Fulfilled(value) == [status |-> "fulfilled", value |-> value]
Rejected(reason) == [status |-> "rejected", reason |-> reason]
TaskOutcomes(i) ==
  {Fulfilled(<<"page", i>>),
   Rejected([isError |-> TRUE, kind |-> "http", status |-> 404, url |-> i])}

\* the locals of withConcurrencyLimit(tasks, limit) before the promise executor runs
NewPool(n, limit) ==
  [called |-> FALSE, limit |-> limit,
   tasks |-> [i \in 1..n |-> "queued"],
   starts |-> [i \in 1..n |-> 0],
   settled |-> [i \in 1..n |-> [status |-> "pending"]],
   results |-> [i \in 1..n |-> [status |-> "empty"]],
   running |-> 0, index |-> 0, completed |-> 0,
   resolved |-> <<>>]

NoPool == [NewPool(0, 0) EXCEPT !.called = TRUE, !.resolved = <<<<>>>>]

\* mutant: the loop starts tasks whatever the number running
startTasks_unlimited(p) ==
  [p EXCEPT !.index = Len(p.tasks), !.running = @ + Len(p.tasks) - p.index,
            !.tasks = [i \in 1..Len(p.tasks) |-> IF i > p.index THEN "pending" ELSE p.tasks[i]],
            !.starts = [i \in 1..Len(p.tasks) |-> IF i > p.index THEN p.starts[i] + 1
                                                   ELSE p.starts[i]]]

\* while (running < limit && index < tasks.length): taskIndex = index++,
\* running++, tasks[taskIndex]() is called.  index counts from 0, the tasks
\* of the model from 1.
RECURSIVE startTasks(_)
startTasks(p) ==
  With([q \in {p} |->
    IF q.running < q.limit /\ q.index < Len(q.tasks)
      THEN startTasks([q EXCEPT !.index = @ + 1, !.running = @ + 1,
                                !.tasks[q.index + 1] = "pending",
                                !.starts[q.index + 1] = @ + 1])
      ELSE q])

\* mutant: the results are handed over as soon as no task is left to start
next_resolvesEarly(p) ==
  IF p.index = Len(p.tasks) THEN [p EXCEPT !.resolved = Append(@, p.results)]
  ELSE startTasks(p)

\* next(): resolve(results) when every task has completed, else start tasks
next(p) ==
  With([q \in {p} |->
    IF q.completed = Len(q.tasks) THEN [q EXCEPT !.resolved = Append(@, q.results)]
    ELSE startTasks(q)])

(***************************************************************************)
(* Calls of patchConfigForSetup / patchConfigForRescan on a document       *)
(***************************************************************************)
NoOpts == [toolNames |-> <<>>, profile |-> "unknown",
           allowlist |-> [librarianAllow |-> {}, foundryAllow |-> {}]]

NoSummary == [profile |-> "unknown", toolCount |-> 0, librarianEnabled |-> 0,
              foundryEnabled |-> 0, preservedExistingToggles |-> FALSE]

\* a worktree no command has run in
NoFiles == [jsonc |-> FileMissing, legacy |-> FileMissing, backups |-> {}, tmp |-> 0]

NoWorld == [scan |-> "throws", discovery |-> [u \in NormalizedUrls |-> Threw],
            write |-> "none", renameFails |-> FALSE]

NoCmd == [name |-> "none", rawArgs |-> <<>>, world |-> NoWorld]

NoReport == [complete |-> FALSE, lines |-> <<>>, asked |-> <<>>]

Init ==
  /\ doc \in InitDocs
  /\ given = doc
  /\ callerInput = doc
  /\ op = "init"
  /\ options = NoOpts
  /\ warnings = <<>>
  /\ summary = NoSummary
  /\ runs = 0
  /\ files = NoFiles
  /\ found = NoFiles
  /\ token = ""
  /\ cmd = NoCmd
  /\ report = NoReport
  /\ commands = 0
  /\ pool = NoPool
  /\ retry = NoRetry

Called(mode, o, r) ==
  /\ doc' = r.data
  /\ given' = doc
  /\ callerInput' = inputAfterCall(doc, r.data)
  /\ op' = mode
  /\ options' = o
  /\ warnings' = r.warnings
  /\ summary' = r.summary
  /\ runs' = runs + 1
  /\ UNCHANGED driverVars
  /\ UNCHANGED docsVars

Setup ==
  /\ runs < MaxRuns
  /\ \E url \in NormalizedUrls, names \in ToolLists, profile \in Profiles :
       \E o \in {[foundryApiUrl |-> url, toolNames |-> names, profile |-> profile,
                   allowlist |-> computeAllowedTools(profile, names)]} :
         \E r \in {patchConfigForSetup(doc, o)} : Called("setup", o, r)

Rescan ==
  /\ runs < MaxRuns
  /\ \E names \in ToolLists, profile \in Profiles :
       \E o \in {[toolNames |-> names, profile |-> profile,
                   allowlist |-> computeAllowedTools(profile, names)]} :
         \E r \in {patchConfigForRescan(doc, o)} : Called("rescan", o, r)

Next == Setup \/ Rescan

Spec == Init /\ [][Next]_vars

(***************************************************************************)
(* The commands /setup-palantir-mcp and /rescan-palantir-mcp-tools run in  *)
(* a worktree                                                              *)
(***************************************************************************)
\* an opencode.json from before the migration; its server entry names URL_ONE
\* in a form normalizeFoundryBaseUrl rewrites
LEGACY_DOC ==
  JObj(<< <<<<"plugin">>, JArr(<<JStr(<<"legacy">>)>>)>>,
          <<K_mcp,
            JObj(<< <<K_server,
                      JObj(<< <<<<"enabled">>, JBool(TRUE)>>,
                              <<K_type, JStr(<<"local">>)>>,
                              <<K_command, JArr(<<JNum(7), URL_FLAG,
                                                  JStr(URL_ONE_SLOPPY)>>)>> >>)>> >>)>>,
          <<K_tools, JObj(<< <<<<"legacy_tool">>, JBool(TRUE)>>,
                             <<<<"other_tool">>, JBool(FALSE)>> >>)>>,
          <<K_agent,
            JObj(<< <<<<"foundry">>,
                      JObj(<< <<K_prompt, JStr(<<"legacy", " ", "prompt">>)>>,
                              <<K_tools, JObj(<< <<toolKey("a"), JBool(FALSE)>> >>)>> >>)>> >>)>> >>)

\* an opencode.json whose values differ in JSON type from the ones a
\* hand-written opencode.jsonc holds under the same keys
LEGACY_MIXED ==
  JObj(<< <<<<"theme">>, JNull>>,
          <<K_schema, JNull>>,
          <<K_meta, JStr(<<"legacy">>)>>,
          <<<<"plugin">>, JObj(<< <<<<"x">>, JNum(1)>> >>)>>,
          <<K_tools, JNull>>,
          <<K_mcp, JObj(<< <<<<"legacy-server">>, SERVER_REMOTE>>,
                           <<<<"other-server">>, JNull>>,
                           <<K_server, JStr(<<"off">>)>> >>)>>,
          <<K_agent,
            JObj(<< <<<<"build">>, JObj(<< <<K_mode, JStr(<<"subagent">>)>>,
                                           <<K_hidden, JBool(TRUE)>> >>)>>,
                    <<<<"foundry">>,
                      JObj(<< <<K_tools, JObj(<< <<toolKey("a"), JBool(TRUE)>>,
                                                 <<toolKey("b"), JBool(FALSE)>> >>)>> >>)>>,
                    <<<<"foundry-librarian">>, JArr(<<>>)>> >>)>> >>)

\* a server entry whose command names something that is not a URL
DOC_BAD_URL ==
  JObj(<< <<K_mcp,
            JObj(<< <<K_server,
                      JObj(<< <<K_type, JStr(<<"local">>)>>,
                              <<K_command, JArr(<<JStr(<<"npx">>), URL_FLAG,
                                                  JStr(URL_INVALID), URL_FLAG>>)>> >>)>> >>)>> >>)

OLD_BACKUP == FileOf(JObj(<< <<<<"plugin">>, JArr(<<>>)>> >>))

InitJsonc ==
  {FileMissing, FileUnreadable, FileGarbage, FileOf(DOC_USER), FileOf(DOC_CONFIGURED),
   FileOf(DOC_BAD_URL), FileOf(JArr(<<>>)), FileOf(DOC_LOOSE)}

InitBackups ==
  {{}, {[index |-> 0, file |-> OLD_BACKUP]},
   {[index |-> 0, file |-> OLD_BACKUP], [index |-> 1, file |-> FileGarbage]}}

InitFiles ==
  {[jsonc |-> j, legacy |-> l, backups |-> {}, tmp |-> 0] :
     j \in InitJsonc, l \in {FileMissing, FileGarbage, FileUnreadable}}
    \cup {[jsonc |-> j, legacy |-> FileOf(LEGACY_DOC), backups |-> b, tmp |-> 0] :
            j \in InitJsonc, b \in InitBackups}
    \cup {[jsonc |-> j, legacy |-> FileOf(LEGACY_MIXED), backups |-> {}, tmp |-> 0] :
            j \in InitJsonc}

InitDriver ==
  /\ doc = DOC_EMPTY
  /\ given = doc
  /\ callerInput = doc
  /\ op = "init"
  /\ options = NoOpts
  /\ warnings = <<>>
  /\ summary = NoSummary
  /\ runs = 0
  /\ files \in InitFiles
  /\ found = files
  /\ token \in {""} \cup Tokens
  /\ cmd = NoCmd
  /\ report = NoReport
  /\ commands = 0
  /\ pool = NoPool
  /\ retry = NoRetry

Ran(name, rawArgs, world, r) ==
  /\ files' = r.files
  /\ found' = files
  /\ cmd' = [name |-> name, rawArgs |-> rawArgs, world |-> world]
  /\ report' = [complete |-> r.complete, lines |-> r.lines, asked |-> r.asked]
  /\ commands' = commands + 1
  /\ UNCHANGED token
  /\ UNCHANGED patchVars
  /\ UNCHANGED docsVars

SetupCommand ==
  /\ commands < MaxCommands
  /\ \E rawArgs \in RawArgs, world \in Worlds :
       \E r \in {setupPalantirMcp(files, token, rawArgs, world)} :
         Ran("setup", rawArgs, world, r)

RescanCommand ==
  /\ commands < MaxCommands
  /\ \E world \in Worlds :
       \E r \in {rescanPalantirMcpTools(files, token, world)} :
         Ran("rescan", <<>>, world, r)

NextDriver == SetupCommand \/ RescanCommand

SpecDriver == InitDriver /\ [][NextDriver]_vars

(***************************************************************************)
(* One call of withConcurrencyLimit(tasks, limit): the executor, the tasks' *)
(* promises settling, and the callbacks the event loop then runs.          *)
(***************************************************************************)
InitPool ==
  /\ doc = DOC_EMPTY
  /\ given = doc
  /\ callerInput = doc
  /\ op = "init"
  /\ options = NoOpts
  /\ warnings = <<>>
  /\ summary = NoSummary
  /\ runs = 0
  /\ files = NoFiles
  /\ found = NoFiles
  /\ token = ""
  /\ cmd = NoCmd
  /\ report = NoReport
  /\ commands = 0
  /\ pool \in {NewPool(n, limit) : n \in 0..MaxTasks, limit \in 1..MaxLimit}
  /\ retry = NoRetry

\* new Promise((resolve) => { function next() {...}; next(); })
PoolCall ==
  /\ ~pool.called
  /\ pool' = next([pool EXCEPT !.called = TRUE])
  /\ UNCHANGED <<patchVars, driverVars, retry>>

\* the promise tasks[i]() returned settles
TaskSettles ==
  \E i \in 1..Len(pool.tasks) : \E outcome \in TaskOutcomes(i) :
    /\ pool.tasks[i] = "pending"
    /\ pool' = [pool EXCEPT !.tasks[i] = "settled", !.settled[i] = outcome]
    /\ UNCHANGED <<patchVars, driverVars, retry>>

\* .then((value) => {...}) or .catch((error) => {...}) of task i runs
ThenCatch ==
  \E i \in 1..Len(pool.tasks) :
    /\ pool.tasks[i] = "settled"
    /\ pool' = [pool EXCEPT
         !.tasks[i] = "recorded",
         !.results[i] = IF pool.settled[i].status = "fulfilled"
                          THEN Fulfilled(pool.settled[i].value)
                          ELSE Rejected(toError(pool.settled[i].reason))]
    /\ UNCHANGED <<patchVars, driverVars, retry>>

\* .finally(() => { running--; completed++; next(); }) of task i runs
Finally ==
  \E i \in 1..Len(pool.tasks) :
    /\ pool.tasks[i] = "recorded"
    /\ pool' = next([pool EXCEPT !.tasks[i] = "finished",
                                 !.running = @ - 1, !.completed = @ + 1])
    /\ UNCHANGED <<patchVars, driverVars, retry>>

NextPool == PoolCall \/ TaskSettles \/ ThenCatch \/ Finally

\* the event loop runs every callback that is due, and every task settles
SpecPool ==
  /\ InitPool /\ [][NextPool]_vars
  /\ WF_vars(PoolCall) /\ WF_vars(TaskSettles) /\ WF_vars(ThenCatch) /\ WF_vars(Finally)

(***************************************************************************)
(* One call of fetchWithRetry(url): the timer between attempts and the     *)
(* settling of each fetch.                                                 *)
(***************************************************************************)
InitFetch ==
  /\ doc = DOC_EMPTY
  /\ given = doc
  /\ callerInput = doc
  /\ op = "init"
  /\ options = NoOpts
  /\ warnings = <<>>
  /\ summary = NoSummary
  /\ runs = 0
  /\ files = NoFiles
  /\ found = NoFiles
  /\ token = ""
  /\ cmd = NoCmd
  /\ report = NoReport
  /\ commands = 0
  /\ pool = NoPool
  /\ retry \in {NewRetry(address) :
                  address \in {"pagefind-entry.json", "pagefind.pf_meta", "fragment.pf_fragment"}}

\* await new Promise((r) => setTimeout(r, computeDelay(attempt - 1)))
Delay ==
  \E random \in {0, 50, 99} :
    /\ retry.pc = "delay"
    /\ retry' = [retry EXCEPT !.pc = "fetch",
                              !.waited = Append(@, computeDelay(retry.attempt - 1, random))]
    /\ UNCHANGED <<patchVars, driverVars, pool>>

\* await fetch(url) settles, and the rest of the loop body runs
Fetch ==
  \E fetched \in FetchOutcomes :
    /\ retry.pc = "fetch"
    /\ retry' = afterFetch(retry, fetched)
    /\ UNCHANGED <<patchVars, driverVars, pool>>

NextFetch == Delay \/ Fetch

\* timers fire and every fetch settles
SpecFetch == InitFetch /\ [][NextFetch]_vars /\ WF_vars(Delay) /\ WF_vars(Fetch)

(***************************************************************************)
(* Reading a document the way the claims speak about it                    *)
(***************************************************************************)
\* d[k] when d is an object, undefined otherwise
Field(d, k) == IF isRecord(d) THEN Get(d, k) ELSE JUndefined

\* d.agent[agentName]
ManagedAgent(d, agentName) == Field(Field(d, K_agent), <<agentName>>)

\* d.agent[agentName].tools as an object; the empty object when it is none
ToolsOf(d, agentName) ==
  LET tools == Field(ManagedAgent(d, agentName), K_tools)
  IN IF isRecord(tools) THEN tools ELSE JObj(<<>>)

\* d.mcp['palantir-mcp']
ServerOf(d) == Field(Field(d, K_mcp), K_server)

\* d.tools['palantir-mcp_*']
GlobalDenyOf(d) == Field(Field(d, K_tools), K_globalDeny)

ToggleKeysOf(tools) ==
  {tools.kv[i][1] : i \in {j \in 1..Len(tools.kv) : startsWithPrefix(tools.kv[j][1])}}

AllowFor(agentName) ==
  IF agentName = "foundry-librarian" THEN options.allowlist.librarianAllow
  ELSE options.allowlist.foundryAllow

\* the call recorded in the state, made once more on its own output
Rerun ==
  IF op = "setup" THEN patchConfigForSetup(doc, options) ELSE patchConfigForRescan(doc, options)

(***************************************************************************)
(* C1: the document produced by patchConfigForSetup or patchConfigForRescan *)
(* is a fixed point: the same call with the same tool list, profile,       *)
(* allowlist and URL on that output serializes to the same text (same      *)
(* keys, same values, same key order).                                     *)
(***************************************************************************)
C1_Idempotent ==
  op # "init" =>
    /\ stringifyJsonc(Rerun.data) = stringifyJsonc(doc)
    /\ Rerun.data = doc

\* a setup has rewritten a hand-written description and added toggles
C1_Witness ==
  /\ op = "setup"
  /\ given = DOC_USER
  /\ doc # given
  /\ options.toolNames = <<"b", "a">>
  /\ Field(ManagedAgent(doc, "foundry"), K_description)
       # Field(ManagedAgent(given, "foundry"), K_description)

(***************************************************************************)
(* C2: a rescan never changes the value of a 'palantir-mcp_<tool>' key     *)
(* that exists in a managed agent's tools map, whatever the tool list,     *)
(* profile and allowlist; it writes a toggle only where the key is absent. *)
(***************************************************************************)
C2_RescanKeepsToggles ==
  op = "rescan" =>
    \A agentName \in ManagedAgents :
      /\ \A k \in ToggleKeysOf(ToolsOf(given, agentName)) :
           Get(ToolsOf(doc, agentName), k) = Get(ToolsOf(given, agentName), k)
      /\ \A k \in ToggleKeysOf(ToolsOf(doc, agentName)) :
           Get(ToolsOf(doc, agentName), k) # Get(ToolsOf(given, agentName), k)
             => Get(ToolsOf(given, agentName), k) = JUndefined

\* the second run, a rescan, met an existing toggle whose value disagrees with
\* the allowlist
C2_Witness ==
  /\ op = "rescan"
  /\ runs = 2
  /\ \E agentName \in ManagedAgents : \E n \in NamesOf(options.toolNames) :
       /\ Get(ToolsOf(given, agentName), toolKey(n)) # JUndefined
       /\ Get(ToolsOf(given, agentName), toolKey(n)) # JBool(n \in AllowFor(agentName))

(***************************************************************************)
(* C3: a setup never overwrites a 'palantir-mcp_<tool>' key already        *)
(* present in a managed agent's tools map, whatever the allowlist says; it *)
(* only fills in the keys that are missing.                                *)
(***************************************************************************)
C3_SetupKeepsToggles ==
  op = "setup" =>
    \A agentName \in ManagedAgents :
      \A k \in ToggleKeysOf(ToolsOf(given, agentName)) :
        Get(ToolsOf(doc, agentName), k) = Get(ToolsOf(given, agentName), k)

\* a setup met a hand-written toggle that the allowlist would have set otherwise,
\* and filled in a missing one beside it
C3_Witness ==
  /\ op = "setup"
  /\ \E agentName \in ManagedAgents : \E n, m \in NamesOf(options.toolNames) :
       /\ Get(ToolsOf(given, agentName), toolKey(n)) # JUndefined
       /\ Get(ToolsOf(given, agentName), toolKey(n)) # JBool(n \in AllowFor(agentName))
       /\ Get(ToolsOf(given, agentName), toolKey(m)) = JUndefined
       /\ Get(ToolsOf(doc, agentName), toolKey(m)) # JUndefined

(***************************************************************************)
(* C4: an mcp['palantir-mcp'] entry present before the run, with any       *)
(* value, is unchanged after setup (with any supplied URL) and after       *)
(* rescan; setup creates the entry only when it is absent, and rescan      *)
(* never creates it.                                                       *)
(***************************************************************************)
C4_ServerNeverOverwritten ==
  op # "init" =>
    /\ ServerOf(given) # JUndefined => ServerOf(doc) = ServerOf(given)
    /\ (ServerOf(given) = JUndefined /\ op = "rescan") => ServerOf(doc) = JUndefined
    /\ (ServerOf(given) = JUndefined /\ op = "setup") =>
         ServerOf(doc) = newMcpServer(options.foundryApiUrl)

\* a setup with another URL met the server entry a previous setup had created
C4_Witness ==
  /\ op = "setup"
  /\ runs = 2
  /\ ServerOf(given) = newMcpServer(URL_ONE)
  /\ options.foundryApiUrl = URL_TWO

(***************************************************************************)
(* Reading the last command the way the claims speak about it              *)
(***************************************************************************)
\* the document the last setup reconciled: opencode.jsonc as found, with the
\* legacy opencode.json merged under it
MergedFound ==
  LET base == IF found.jsonc.kind = "json" /\ isRecord(found.jsonc.data)
                THEN found.jsonc.data ELSE JObj(<<>>)
  IN IF found.legacy.kind = "json" THEN mergeLegacyIntoJsonc(found.legacy.data, base)
     ELSE base

\* the URL the last setup was given, normalized
SuppliedUrl == normalizeFoundryBaseUrl(trim(cmd.rawArgs)).url

SetupCompleted == cmd.name = "setup" /\ report.complete

\* the strings of the entry's command, in order
CommandStrings(server) ==
  IF isRecord(server) /\ Get(server, K_command).t = "array"
    THEN SelectSeq(Get(server, K_command).a, LAMBDA x : x.t = "string")
    ELSE <<>>

\* the normalized URLs the entry can be read to point to: it is a local entry
\* and the first '--foundry-api-url' of its command is followed by a string
\* that normalizes
PointsTo(server) ==
  LET args == CommandStrings(server)
      flags == {i \in 1..Len(args) : args[i] = URL_FLAG}
  IN IF isRecord(server) /\ Get(server, K_type) = JStr(<<"local">>)
       THEN {normalizeFoundryBaseUrl(args[i + 1].s).url :
               i \in {j \in flags : /\ \A h \in flags : j <= h
                                    /\ j + 1 <= Len(args)
                                    /\ "url" \in DOMAIN
                                         normalizeFoundryBaseUrl(args[j + 1].s)}}
       ELSE {}

WarnsMismatch(url) ==
  \E i \in 1..Len(report.lines) : report.lines[i] = <<"- ">> \o MismatchLine(url)

WarnsAnyMismatch ==
  \E i \in 1..Len(report.lines) :
    /\ Len(report.lines[i]) >= 2
    /\ SubSeq(report.lines[i], 1, 2) = <<"- ", MismatchLine(<<>>)[1]>>

(***************************************************************************)
(* C5 as stated: whenever a completed setup met an existing                *)
(* mcp['palantir-mcp'] entry with a command that does not name the         *)
(* supplied URL, the report carries the mismatch warning.                  *)
(* This does not hold: no warning is given when no URL can be read from    *)
(* the entry, as with the command ['custom', 'command'].                   *)
(***************************************************************************)
C5_Original ==
  SetupCompleted =>
    LET server == ServerOf(MergedFound)
    IN (/\ isRecord(server)
        /\ Get(server, K_command).t = "array"
        /\ \A i \in 1..Len(CommandStrings(server)) :
             LET n == normalizeFoundryBaseUrl(CommandStrings(server)[i].s)
             IN "url" \in DOMAIN n => n.url # SuppliedUrl)
         => WarnsAnyMismatch

(***************************************************************************)
(* C5: a completed setup warns of a mismatch exactly when the existing     *)
(* mcp['palantir-mcp'] entry is a local entry whose command carries a      *)
(* --foundry-api-url argument that normalizes to a URL other than the      *)
(* normalized supplied URL; the warning names the URL the entry points     *)
(* to, and the entry is written back unchanged.  When no URL can be read   *)
(* from the entry, or it normalizes to the supplied URL, the report        *)
(* carries no mismatch warning.                                            *)
(***************************************************************************)
C5_MismatchWarned ==
  SetupCompleted =>
    LET server == ServerOf(MergedFound)
    IN /\ \A u \in NormalizedUrls :
            WarnsMismatch(u) <=> (u \in PointsTo(server) /\ u # SuppliedUrl)
       /\ WarnsAnyMismatch => \E u \in NormalizedUrls : WarnsMismatch(u)
       /\ server # JUndefined => ServerOf(files.jsonc.data) = server

\* setup for URL_TWO met the entry a previous setup had created for URL_ONE
C5_Witness ==
  /\ SetupCompleted
  /\ ServerOf(MergedFound) = SERVER_ONE
  /\ SuppliedUrl = URL_TWO
  /\ WarnsMismatch(URL_ONE)
  /\ ServerOf(files.jsonc.data) = SERVER_ONE

(***************************************************************************)
(* C6: whatever non-empty value FOUNDRY_TOKEN has, setup leaves the same   *)
(* worktree and so writes the same opencode.jsonc: run again from the      *)
(* worktree it found, with the same arguments and the same answers of its  *)
(* collaborators but any other non-empty token, it leaves exactly the      *)
(* files it left.  The text it writes contains no token value, and a       *)
(* server entry it creates carries the placeholder '{env:FOUNDRY_TOKEN}'   *)
(* as its only environment entry.                                          *)
(***************************************************************************)
Symbols(text) == {text[i] : i \in 1..Len(text)}

C6_TokenNeverWritten ==
  cmd.name = "setup" =>
    /\ token # "" =>
         \A other \in Tokens :
           setupPalantirMcp(found, other, cmd.rawArgs, cmd.world).files = files
    /\ report.complete =>
         /\ files.jsonc.text = stringifyJsonc(files.jsonc.data)
         /\ Symbols(files.jsonc.text) \cap Tokens = {}
         /\ ServerOf(MergedFound) = JUndefined =>
              Get(ServerOf(files.jsonc.data), K_environment)
                = JObj(<< <<K_token, TOKEN_PLACEHOLDER>> >>)

\* a setup run with a token set created the server entry and wrote the file
C6_Witness ==
  /\ SetupCompleted
  /\ token = "tokA"
  /\ ServerOf(MergedFound) = JUndefined
  /\ ServerOf(files.jsonc.data) = newMcpServer(SuppliedUrl)
  /\ files.jsonc # found.jsonc

(***************************************************************************)
(* C7: after every setup or rescan, top-level tools['palantir-mcp_*'] is   *)
(* false, whatever value it had (or its absence) before the run, a         *)
(* user-set true included.                                                 *)
(***************************************************************************)
C7_GlobalDenyReasserted ==
  op # "init" => GlobalDenyOf(doc) = JBool(FALSE)

\* a run met a wildcard entry that the user had set to true
C7_Witness ==
  /\ op # "init"
  /\ GlobalDenyOf(given) = JBool(TRUE)

(***************************************************************************)
(* C8 as stated: the wildcard deny entry is written only if it is absent;  *)
(* when it is already present, reconciliation does not change its value.   *)
(***************************************************************************)
C8_Original ==
  op # "init" =>
    (GlobalDenyOf(given) # JUndefined => GlobalDenyOf(doc) = GlobalDenyOf(given))

(***************************************************************************)
(* C8, amended: the wildcard deny entry tools['palantir-mcp_*'] is written *)
(* on every run.  When it is already present its value becomes false (so   *)
(* only a value of false is left as it was) while its position in tools    *)
(* and every other entry of tools stay as they were; when tools is an      *)
(* object without it, it is appended as false after the existing entries.  *)
(***************************************************************************)
C8_GlobalDenyWrittenInPlace ==
  op # "init" =>
    LET before == Field(given, K_tools)
        after == Field(doc, K_tools)
    IN /\ GlobalDenyOf(given) # JUndefined =>
            /\ GlobalDenyOf(doc) = JBool(FALSE)
            /\ ObjectKeys(after) = ObjectKeys(before)
            /\ \A i \in 1..Len(before.kv) :
                 before.kv[i][1] # K_globalDeny => after.kv[i] = before.kv[i]
       /\ (isRecord(before) /\ GlobalDenyOf(given) = JUndefined) =>
            after.kv = Append(before.kv, <<K_globalDeny, JBool(FALSE)>>)

\* a run met tools with a wildcard entry set to true and another entry after it
C8_Witness ==
  /\ op # "init"
  /\ GlobalDenyOf(given) = JBool(TRUE)
  /\ Len(Field(given, K_tools).kv) > 1
  /\ GlobalDenyOf(doc) # GlobalDenyOf(given)

(***************************************************************************)
(* C9: for each managed agent (foundry-librarian, foundry), a prompt that  *)
(* is an existing string is left unchanged by setup and by rescan, for     *)
(* every profile and tool list.                                            *)
(***************************************************************************)
C9_PromptKept ==
  op # "init" =>
    \A agentName \in ManagedAgents :
      Field(ManagedAgent(given, agentName), K_prompt).t = "string" =>
        Field(ManagedAgent(doc, agentName), K_prompt)
          = Field(ManagedAgent(given, agentName), K_prompt)

\* a run met one agent with a custom prompt and the other with an empty prompt
C9_Witness ==
  /\ op # "init"
  /\ Field(ManagedAgent(given, "foundry"), K_prompt) = JStr(<<"be", " ", "brief">>)
  /\ Field(ManagedAgent(given, "foundry-librarian"), K_prompt) = JStr(<<>>)

(***************************************************************************)
(* C10 as stated: for each managed agent, a value already present in       *)
(* mode, hidden, description or prompt is never overwritten by setup or    *)
(* rescan.                                                                 *)
(***************************************************************************)
AgentFields == {K_mode, K_hidden, K_description, K_prompt}

EndsWith(s, tail) ==
  Len(s) >= Len(tail) /\ SubSeq(s, Len(s) - Len(tail) + 1, Len(s)) = tail

NOTE_SEPARATOR == <<" ", "|", " ">>

\* the description `after` is `before` with the note of the run's profile put behind
\* the text of `before`: the text in front of the note is a piece of `before`
AnnotationOf(before, after) ==
  LET note == buildGeneratedNote(options.profile)
      kept == IF Len(after) > Len(note) + Len(NOTE_SEPARATOR)
                THEN SubSeq(after, 1, Len(after) - Len(note) - Len(NOTE_SEPARATOR))
                ELSE <<>>
  IN /\ EndsWith(after, note)
     /\ \/ after = note
        \/ after = kept \o NOTE_SEPARATOR \o note
     /\ kept = <<>> \/ indexOf(before, kept) # 0

MarkerCount(s) ==
  Cardinality({i \in 1..Len(s) :
                 /\ i + Len(GENERATED_NOTE_PREFIX) - 1 <= Len(s)
                 /\ SubSeq(s, i, i + Len(GENERATED_NOTE_PREFIX) - 1)
                      = GENERATED_NOTE_PREFIX})

DescriptionOf(d, agentName) == Field(ManagedAgent(d, agentName), K_description)

C11_MarkerAtMostOnce ==
  op # "init" =>
    \A agentName \in ManagedAgents :
      LET before == DescriptionOf(given, agentName)
          after == DescriptionOf(doc, agentName)
      IN /\ after.t = "string"
         /\ MarkerCount(after.s) <= 1
         /\ (before.t = "string" /\ MarkerCount(before.s) >= 1) =>
              /\ MarkerCount(after.s) = 1
              /\ EndsWith(after.s, buildGeneratedNote(options.profile))
              /\ indexOf(after.s, GENERATED_NOTE_PREFIX)
                   <= indexOf(before.s, GENERATED_NOTE_PREFIX)

\* a rescan with another profile met a description that carried two notes
C11_Witness ==
  /\ op = "rescan"
  /\ options.profile = "default"
  /\ DescriptionOf(given, "foundry-librarian") = JStr(DESC_TWICE)
  /\ MarkerCount(DescriptionOf(given, "foundry-librarian").s) = 2
  /\ MarkerCount(DescriptionOf(doc, "foundry-librarian").s) = 1

(***************************************************************************)
(* C12 as stated: after every setup or rescan, for every discovered tool   *)
(* name t and each managed agent, the agent's tools map contains the key   *)
(* 'palantir-mcp_' + t exactly once and its value is a boolean.            *)
(* This does not hold: a toggle that is present with a value that is not   *)
(* a boolean (null, a string) is kept as it is.                            *)
(***************************************************************************)
KeyCount(obj, key) == Cardinality({i \in 1..Len(obj.kv) : obj.kv[i][1] = key})

C12_Original ==
  op # "init" =>
    \A agentName \in ManagedAgents : \A n \in NamesOf(options.toolNames) :
      /\ KeyCount(ToolsOf(doc, agentName), toolKey(n)) = 1
      /\ Get(ToolsOf(doc, agentName), toolKey(n)).t = "boolean"

(***************************************************************************)
(* C12, amended: after every setup or rescan, for every discovered tool    *)
(* name t and each managed agent, the agent's tools map is an object that  *)
(* contains the key 'palantir-mcp_' + t exactly once.  Its value is a      *)
(* boolean when the key was absent before the run or held a boolean; a     *)
(* key that was present keeps the value it had, a value that is not a      *)
(* boolean included.                                                       *)
(***************************************************************************)
C12_OneTogglePerTool ==
  op # "init" =>
    \A agentName \in ManagedAgents : \A n \in NamesOf(options.toolNames) :
      LET before == Get(ToolsOf(given, agentName), toolKey(n))
          agent == ManagedAgent(doc, agentName)
          after == Get(ToolsOf(doc, agentName), toolKey(n))
      IN /\ isRecord(agent) /\ isRecord(Field(agent, K_tools))
         /\ KeyCount(ToolsOf(doc, agentName), toolKey(n)) = 1
         /\ before = JUndefined => after.t = "boolean"
         /\ before # JUndefined => after = before

\* a run that discovered a and b met an agent whose toggle of a was null and
\* gave it a boolean toggle of b
C12_Witness ==
  /\ op # "init"
  /\ given = DOC_LOOSE
  /\ NamesOf(options.toolNames) = {"a", "b"}
  /\ Get(ToolsOf(doc, "foundry"), toolKey("a")) = JNull
  /\ Get(ToolsOf(doc, "foundry"), toolKey("b")).t = "boolean"
  /\ KeyCount(ToolsOf(doc, "foundry-librarian"), toolKey("a")) = 1

(***************************************************************************)
(* C13: the result of setup and rescan depends only on the set of          *)
(* discovered tool names: the same call with any list that holds the same  *)
(* names, in any order and with any duplicates, returns the same document  *)
(* (key order included), the same warnings and the same summary.  The      *)
(* toggle keys a run adds to an agent's tools map stand in sorted          *)
(* tool-name order, one key per distinct name, and toolCount is the        *)
(* number of distinct names.                                               *)
(***************************************************************************)
\* the call recorded in the state, made on the same document with another list
CallWith(toolNames) ==
  IF op = "setup"
    THEN patchConfigForSetup(given, [options EXCEPT !.toolNames = toolNames])
    ELSE patchConfigForRescan(given, [options EXCEPT !.toolNames = toolNames])

\* the discovered tools whose toggle the run added to the agent, in key order
AddedToggles(agentName) ==
  LET keys == ObjectKeys(ToolsOf(doc, agentName))
      added == SelectSeq(keys, LAMBDA k : /\ startsWithPrefix(k)
                                         /\ ~HasKey(ToolsOf(given, agentName), k))
  IN [i \in 1..Len(added) |-> added[i][2]]

C13_OnlyTheNameSet ==
  op # "init" =>
    /\ \A other \in ToolListsUpTo(MaxToolNames + 1) :
         NamesOf(other) = NamesOf(options.toolNames) =>
           CallWith(other) = [data |-> doc, warnings |-> warnings, summary |-> summary]
    /\ summary.toolCount = Cardinality(NamesOf(options.toolNames))
    /\ \A agentName \in ManagedAgents :
         LET added == AddedToggles(agentName)
         IN /\ \A i, j \in 1..Len(added) : i < j => localeCompare(added[i], added[j]) < 0
            /\ \A i \in 1..Len(added) : added[i] \in NamesOf(options.toolNames)

\* a run was given b before a and added both toggles, a first
C13_Witness ==
  /\ op # "init"
  /\ options.toolNames = <<"b", "a">>
  /\ AddedToggles("foundry") = <<"a", "b">>
  /\ summary.toolCount = 2
  /\ CallWith(<<"b", "a", "a">>).data = doc

(***************************************************************************)
(* C14: for every discovered tool whose toggle key is absent from a        *)
(* managed agent's tools map before the run, after setup or rescan the     *)
(* key's value is true if the tool is in that agent's allow set            *)
(* (librarianAllow for foundry-librarian, foundryAllow for foundry) and    *)
(* false otherwise.                                                        *)
(***************************************************************************)
C14_MissingTogglesFollowAllowlist ==
  op # "init" =>
    \A agentName \in ManagedAgents : \A n \in NamesOf(options.toolNames) :
      Get(ToolsOf(given, agentName), toolKey(n)) = JUndefined =>
        Get(ToolsOf(doc, agentName), toolKey(n)) = JBool(n \in AllowFor(agentName))

\* a run on a document without toggles, with allow sets that differ per agent,
\* wrote one true and one false toggle for each agent
C14_Witness ==
  /\ op # "init"
  /\ given = DOC_EMPTY
  /\ options.allowlist = [librarianAllow |-> {"a"}, foundryAllow |-> {"b"}]
  /\ Get(ToolsOf(doc, "foundry-librarian"), toolKey("a")) = JBool(TRUE)
  /\ Get(ToolsOf(doc, "foundry-librarian"), toolKey("b")) = JBool(FALSE)
  /\ Get(ToolsOf(doc, "foundry"), toolKey("a")) = JBool(FALSE)
  /\ Get(ToolsOf(doc, "foundry"), toolKey("b")) = JBool(TRUE)

(***************************************************************************)
(* Reading the frame of a run: the three containers of managed entries     *)
(* and the keys a run manages in each                                      *)
(***************************************************************************)
Containers == {K_tools, K_mcp, K_agent}

ManagedKeys(container) ==
  CASE container = K_tools -> {K_globalDeny}
    [] container = K_mcp -> {K_server}
    [] OTHER -> {<<"foundry-librarian">>, <<"foundry">>}

KeySet(obj) == {obj.kv[i][1] : i \in 1..Len(obj.kv)}

\* the entries of an object container outside the managed keys are the same
\* before and after
OtherEntriesKept(before, after, container) ==
  /\ isRecord(after)
  /\ \A k \in KeySet(before) \ ManagedKeys(container) : Get(after, k) = Get(before, k)
  /\ KeySet(after) \ ManagedKeys(container) \subseteq KeySet(before)

\* outside the containers: the deprecated key is gone, every other top-level
\* key keeps its value and its place among the kept keys, and no key other
\* than $schema and the containers is added
TopLevelKept ==
  /\ ~HasKey(doc, K_meta)
  /\ \A k \in KeySet(given) \ ({K_meta} \cup Containers) : Get(doc, k) = Get(given, k)
  /\ SelectSeq(ObjectKeys(doc), LAMBDA k : k \in KeySet(given))
       = SelectSeq(ObjectKeys(given), LAMBDA k : k # K_meta)
  /\ KeySet(doc) \ KeySet(given) \subseteq {K_schema} \cup Containers

(***************************************************************************)
(* C15 as stated: setup and rescan remove the top-level key 'palantir_mcp' *)
(* and leave unchanged every part of the document outside the managed      *)
(* paths.  This does not hold for a tools, mcp or agent value that is      *)
(* present but is not an object: nothing in it is a managed path, and it   *)
(* is replaced.                                                            *)
(***************************************************************************)
C15_Original ==
  op # "init" =>
    /\ TopLevelKept
    /\ \A c \in Containers :
         IF isRecord(Get(given, c)) THEN OtherEntriesKept(Get(given, c), Get(doc, c), c)
         ELSE Get(given, c) # JUndefined => Get(doc, c) = Get(given, c)

(***************************************************************************)
(* C15, amended: setup and rescan remove the top-level key 'palantir_mcp'; *)
(* every other top-level key except tools, mcp and agent keeps its value,  *)
(* and $schema is added only when absent.  When tools, mcp or agent is an  *)
(* object, all its entries other than the managed ones (the wildcard deny, *)
(* the palantir-mcp server, the two managed agents) keep their values and  *)
(* no other entry is added.  When tools or agent (and, in setup, mcp) is   *)
(* absent or is not an object, it is replaced by an object that holds the  *)
(* managed entries only; rescan leaves mcp as it is.                       *)
(***************************************************************************)
C15_FrameKept ==
  op # "init" =>
    /\ TopLevelKept
    /\ \A c \in Containers :
         IF isRecord(Get(given, c)) THEN OtherEntriesKept(Get(given, c), Get(doc, c), c)
         ELSE IF c = K_mcp /\ op = "rescan" THEN Get(doc, c) = Get(given, c)
         ELSE /\ isRecord(Get(doc, c))
              /\ KeySet(Get(doc, c)) \subseteq ManagedKeys(c)

\* a run on the hand-written document dropped palantir_mcp and kept the
\* plugin list, the other tool, the other server and the other agent
C15_Witness ==
  /\ op # "init"
  /\ given = DOC_USER
  /\ HasKey(given, K_meta) /\ ~HasKey(doc, K_meta)
  /\ Get(doc, <<"plugin">>) = JArr(<<JStr(<<"x">>)>>)
  /\ Get(Get(doc, K_tools), <<"other_tool">>) = JBool(TRUE)
  /\ Get(Get(doc, K_mcp), <<"other-server">>) = SERVER_REMOTE
  /\ Get(Get(doc, K_agent), <<"build">>) = Get(Get(given, K_agent), <<"build">>)
  /\ doc # given

(***************************************************************************)
(* C16: mergeLegacyIntoJsonc(legacy, current).  Every key of the current   *)
(* document whose value is not an object keeps that value, every key only  *)
(* the legacy document has is carried over with its value, keys that are   *)
(* objects on both sides are merged by the same rule, and a current value  *)
(* is never replaced by a legacy one (an object current value facing a     *)
(* legacy value that is not an object stays as it is).  A setup that       *)
(* completes writes, outside what it manages, exactly these values.        *)
(***************************************************************************)
RECURSIVE MergedByRule(_, _, _)
MergedByRule(out, current, legacy) ==
  /\ isRecord(out)
  /\ KeySet(out) = KeySet(current) \cup KeySet(legacy)
  /\ Len(out.kv) = Cardinality(KeySet(out))
  /\ \A k \in KeySet(out) :
       IF ~HasKey(current, k) THEN Get(out, k) = Get(legacy, k)
       ELSE IF isRecord(Get(current, k)) /\ isRecord(Get(legacy, k))
         THEN MergedByRule(Get(out, k), Get(current, k), Get(legacy, k))
       ELSE Get(out, k) = Get(current, k)

\* opencode.jsonc as the last command found it; the empty document when it
\* was missing or did not hold an object
CurrentFound ==
  IF found.jsonc.kind = "json" /\ isRecord(found.jsonc.data)
    THEN found.jsonc.data ELSE JObj(<<>>)

LegacyFound ==
  IF isRecord(found.legacy.data) THEN found.legacy.data ELSE JObj(<<>>)

C16_CurrentValuesWin ==
  (cmd.name = "setup" /\ found.legacy.kind = "json") =>
    /\ MergedByRule(mergeLegacyIntoJsonc(found.legacy.data, CurrentFound),
                    CurrentFound, LegacyFound)
    /\ report.complete =>
         \A k \in (KeySet(CurrentFound) \cup KeySet(LegacyFound))
                   \ ({K_meta, K_schema} \cup Containers) :
           Get(files.jsonc.data, k)
             = IF HasKey(CurrentFound, k) THEN Get(CurrentFound, k)
               ELSE Get(LegacyFound, k)

\* a setup merged the legacy document of other types under the hand-written
\* one: the legacy-only key and server came over, the current values stayed
C16_Witness ==
  /\ SetupCompleted
  /\ found.legacy = FileOf(LEGACY_MIXED)
  /\ found.jsonc = FileOf(DOC_USER)
  /\ Get(files.jsonc.data, <<"theme">>) = JNull
  /\ Get(files.jsonc.data, <<"plugin">>) = JArr(<<JStr(<<"x">>)>>)
  /\ Get(Get(files.jsonc.data, K_mcp), <<"legacy-server">>) = SERVER_REMOTE
  /\ Get(Get(files.jsonc.data, K_mcp), <<"other-server">>) = SERVER_REMOTE
  /\ Get(Get(files.jsonc.data, K_mcp), K_server) = SERVER_CUSTOM
  /\ Get(Get(Get(files.jsonc.data, K_agent), <<"build">>), K_hidden) = JBool(TRUE)
  /\ Get(Get(Get(files.jsonc.data, K_agent), <<"build">>), K_mode) = JStr(<<"primary">>)

(***************************************************************************)
(* Reading what a setup did with the legacy opencode.json it found         *)
(***************************************************************************)
\* a setup returned its completion report after reading a legacy file
MigratingSetup == SetupCompleted /\ found.legacy.kind = "json"

\* opencode.json is gone and is now the backup at the first index that was
\* free in the sequence .bak (0), .bak.1, .bak.2, ...
LegacyMovedToFirstFree ==
  /\ files.legacy = FileMissing
  /\ \E i \in 0..Cardinality(found.backups) :
       /\ i \notin BackupIndices(found)
       /\ \A j \in 0..(i - 1) : j \in BackupIndices(found)
       /\ files.backups = found.backups \cup {[index |-> i, file |-> found.legacy]}
       /\ \E n \in 1..Len(report.lines) :
            report.lines[n] = <<"Migrated legacy ", OPENCODE_JSON_FILENAME, " -> ">>
                                \o BakPathText([index |-> i])

ReportsRenameError ==
  \E n \in 1..Len(report.lines) :
    report.lines[n] = <<"[ERROR] Wrote ", OPENCODE_JSONC_FILENAME,
                        ", but failed to rename legacy ", OPENCODE_JSON_FILENAME>>

(***************************************************************************)
(* C17 as stated: when setup succeeds with a readable legacy opencode.json *)
(* present, the legacy file is renamed to the first name that does not yet *)
(* exist in the sequence opencode.json.bak, .bak.1, .bak.2, ...;           *)
(* afterwards opencode.json no longer exists and no existing backup has    *)
(* been overwritten.  This does not hold for a setup that completes while  *)
(* the rename of the legacy file fails.                                    *)
(***************************************************************************)
C17_Original ==
  MigratingSetup =>
    /\ LegacyMovedToFirstFree
    /\ found.backups \subseteq files.backups

(***************************************************************************)
(* C17, amended: when setup completes with a readable legacy opencode.json *)
(* present and the rename of the legacy file does not fail, the legacy     *)
(* file is renamed to the first name that does not yet exist in the        *)
(* sequence opencode.json.bak, .bak.1, .bak.2, ..., opencode.json no       *)
(* longer exists and the report names the backup.  When the rename fails,  *)
(* setup still completes: opencode.json stays where it was, no backup is   *)
(* made and the report carries an error line.  In both cases every backup  *)
(* that existed is still there with its content.                           *)
(***************************************************************************)
C17_LegacyBackedUp ==
  MigratingSetup =>
    /\ IF cmd.world.renameFails
         THEN /\ files.legacy = found.legacy
              /\ files.backups = found.backups
              /\ ReportsRenameError
         ELSE LegacyMovedToFirstFree /\ ~ReportsRenameError
    /\ found.backups \subseteq files.backups

\* a setup found opencode.json.bak and opencode.json.bak.1 taken and moved
\* the legacy file to opencode.json.bak.2
C17_Witness ==
  /\ MigratingSetup
  /\ ~cmd.world.renameFails
  /\ BackupIndices(found) = {0, 1}
  /\ found.legacy = FileOf(LEGACY_DOC)
  /\ files.legacy = FileMissing
  /\ files.backups = found.backups \cup {[index |-> 2, file |-> FileOf(LEGACY_DOC)]}

(***************************************************************************)
(* C18: if setup or rescan returns an error because of a missing URL       *)
(* argument, a missing FOUNDRY_TOKEN, an unreadable or unparsable          *)
(* opencode.jsonc, an unreadable or unparsable (but present) opencode.json,*)
(* a failed tool discovery or a discovery that returns zero tools, then    *)
(* no file has been written or renamed: the worktree is as the command     *)
(* found it.  In the missing-URL case tool discovery is not called at all. *)
(* The same holds for every other error report except the one of a failed  *)
(* write.                                                                  *)
(***************************************************************************)
ReadErrors ==
  {<< <<kind, name>> >> : kind \in {"[ERROR] Failed reading ", "[ERROR] Failed parsing "},
                          name \in {OPENCODE_JSONC_FILENAME, OPENCODE_JSON_FILENAME}}

ListedErrors ==
  {ERR_MISSING_URL, ERR_NO_TOKEN, ERR_DISCOVERY_THREW, ERR_NO_TOOLS} \cup ReadErrors

C18_ErrorsTouchNoFile ==
  cmd.name # "none" =>
    /\ report.lines \in ListedErrors => ~report.complete /\ files = found
    /\ (~report.complete /\ report.lines # ERR_WRITE) => files = found
    /\ report.lines = ERR_MISSING_URL => report.asked = <<>>
    /\ report.lines \in {ERR_NO_TOKEN} \cup ReadErrors => report.asked = <<>>

\* a setup with a legacy file to migrate and two old backups asked for the
\* tools, the discovery failed, and the worktree is as it was
C18_Witness ==
  /\ cmd.name = "setup"
  /\ report.lines = ERR_DISCOVERY_THREW
  /\ Len(report.asked) = 1
  /\ found.legacy = FileOf(LEGACY_DOC)
  /\ found.jsonc = FileOf(DOC_USER)
  /\ BackupIndices(found) = {0, 1}
  /\ cmd.world.write = "none"
  /\ files = found

(***************************************************************************)
(* C19: writeFileAtomic writes the full text to a temporary file next to   *)
(* the target and then renames it over the target, so whatever happens at  *)
(* either step (fs.writeFile fails before or after creating the temporary  *)
(* file, the rename fails, or both work) opencode.jsonc holds either what  *)
(* it held before (or is absent as before) or the complete new text, never *)
(* a partial one.  Only a command that completes has replaced it.          *)
(***************************************************************************)
\* the file is the whole serialisation of a JSON object
CompleteFile(file) ==
  /\ file.kind = "json"
  /\ isRecord(file.data)
  /\ file.text = stringifyJsonc(file.data)

C19_TargetNeverPartial ==
  cmd.name # "none" =>
    /\ files.jsonc = found.jsonc \/ (report.complete /\ CompleteFile(files.jsonc))
    /\ report.complete => cmd.world.write = "none" /\ CompleteFile(files.jsonc)
    /\ report.lines = ERR_WRITE =>
         /\ cmd.world.write # "none"
         /\ files.jsonc = found.jsonc
         /\ files.legacy = found.legacy
         /\ files.backups = found.backups
         /\ files.tmp = found.tmp + (IF cmd.world.write = "writeFile" THEN 0 ELSE 1)

\* fs.writeFile failed after creating the temporary file: the hand-written
\* opencode.jsonc is as it was and a temporary file is left next to it
C19_Witness ==
  /\ cmd.name = "setup"
  /\ cmd.world.write = "partial"
  /\ report.lines = ERR_WRITE
  /\ found.jsonc = FileOf(DOC_USER)
  /\ files.jsonc = found.jsonc
  /\ files.tmp = 1

(***************************************************************************)
(* C20 as stated: patchConfigForSetup and patchConfigForRescan mutate only *)
(* the freshly constructed working copy they return; the input document    *)
(* passed by the caller, including its nested tools, mcp and agent         *)
(* objects, is unchanged after the call.  The code does not do this: the   *)
(* working copy shares the nested objects with the input, and the entries  *)
(* written into them show in the caller's document.                        *)
(***************************************************************************)
C20_InputUnchanged ==
  op # "init" => callerInput = given

\* after a setup on the hand-written document the caller's own tools object
\* holds the wildcard deny the call wrote, and its foundry agent the new
\* toggle, while the top-level entries of the caller's document are as before
C20_Witness ==
  /\ op = "setup"
  /\ given = DOC_USER
  /\ Get(Get(given, K_tools), K_globalDeny) = JBool(TRUE)
  /\ Get(Get(callerInput, K_tools), K_globalDeny) = JBool(FALSE)
  /\ Get(callerInput, K_tools) = Get(doc, K_tools)
  /\ Get(callerInput, K_agent) = Get(doc, K_agent)
  /\ Get(callerInput, K_agent) # Get(given, K_agent)
  /\ Get(callerInput, K_meta) = Get(given, K_meta)
  /\ ObjectKeys(callerInput) = ObjectKeys(given)

(***************************************************************************)
(* C21: summary.preservedExistingToggles is true exactly when, before the  *)
(* run, at least one of the two managed agents' tools maps contained a key *)
(* starting with 'palantir-mcp_' (whatever its value, and whether or not   *)
(* the tool is among the discovered ones); the preservation warning is     *)
(* returned exactly in that case.                                          *)
(***************************************************************************)
ManagedAgentNames == {"foundry-librarian", "foundry"}

HadToggles ==
  \E agentName \in ManagedAgentNames : ToggleKeysOf(ToolsOf(given, agentName)) # {}

PreservationWarned ==
  \E i \in 1..Len(warnings) :
    warnings[i] = IF op = "setup" THEN WARN_PRESERVED_SETUP ELSE WARN_PRESERVED_RESCAN

C21_PreservedFlagExact ==
  op # "init" =>
    /\ summary.preservedExistingToggles <=> HadToggles
    /\ PreservationWarned <=> HadToggles

\* a setup met toggles in one agent only, none of them true and one of them
\* for a tool that is not discovered, and reported them as preserved
C21_Witness ==
  /\ op = "setup"
  /\ given = DOC_LOOSE
  /\ options.toolNames = <<"a">>
  /\ ToggleKeysOf(ToolsOf(given, "foundry-librarian")) = {toolKey("b")}
  /\ summary.preservedExistingToggles
  /\ PreservationWarned

(***************************************************************************)
(* C22: in the summary returned by setup and rescan, librarianEnabled and  *)
(* foundryEnabled equal the number of distinct discovered tools whose      *)
(* toggle key is true in that agent's tools map after the patch (preserved *)
(* toggles included), so each lies between 0 and toolCount.                *)
(***************************************************************************)
EnabledAfter(agentName) ==
  Cardinality({name \in NamesOf(options.toolNames) :
                 Get(ToolsOf(doc, agentName), toolKey(name)) = JBool(TRUE)})

C22_EnabledCounts ==
  op # "init" =>
    /\ summary.librarianEnabled = EnabledAfter("foundry-librarian")
    /\ summary.foundryEnabled = EnabledAfter("foundry")
    /\ summary.toolCount = Cardinality(NamesOf(options.toolNames))
    /\ summary.librarianEnabled \in 0..summary.toolCount
    /\ summary.foundryEnabled \in 0..summary.toolCount

\* a rescan that discovered b and a counted, for the librarian,
\* the toggle it wrote for a and not the preserved toggle of b that holds a
\* string; for foundry, the preserved toggle of a holds null and is not
\* counted while the new one of b is
C22_Witness ==
  /\ op = "rescan"
  /\ given = DOC_LOOSE
  /\ options.toolNames = <<"b", "a">>
  /\ options.allowlist.librarianAllow = {"a", "b"}
  /\ options.allowlist.foundryAllow = {"a", "b"}
  /\ summary.toolCount = 2
  /\ summary.librarianEnabled = 1
  /\ summary.foundryEnabled = 1

(***************************************************************************)
(* C23: after setup or rescan, get_doc_page and list_all_docs in a managed *)
(* agent's tools map are true for foundry-librarian and false for foundry  *)
(* when they were absent before the run, and keep their previous value     *)
(* when they were present.                                                 *)
(***************************************************************************)
DocsToolKeys == {K_getDocPage, K_listAllDocs}

C23_DocsToolDefaults ==
  op # "init" =>
    \A agentName \in ManagedAgentNames, k \in DocsToolKeys :
      Get(ToolsOf(doc, agentName), k)
        = IF Get(ToolsOf(given, agentName), k) = JUndefined
            THEN JBool(agentName = "foundry-librarian")
            ELSE Get(ToolsOf(given, agentName), k)

\* a run on the hand-written document kept get_doc_page: true of the foundry
\* agent, gave it list_all_docs: false, and gave the librarian both as true
C23_Witness ==
  /\ op # "init"
  /\ given = DOC_USER
  /\ Get(ToolsOf(given, "foundry"), K_getDocPage) = JBool(TRUE)
  /\ Get(ToolsOf(given, "foundry"), K_listAllDocs) = JUndefined
  /\ Get(ToolsOf(doc, "foundry"), K_getDocPage) = JBool(TRUE)
  /\ Get(ToolsOf(doc, "foundry"), K_listAllDocs) = JBool(FALSE)
  /\ Get(ToolsOf(given, "foundry-librarian"), K_getDocPage) = JUndefined
  /\ Get(ToolsOf(doc, "foundry-librarian"), K_getDocPage) = JBool(TRUE)
  /\ Get(ToolsOf(doc, "foundry-librarian"), K_listAllDocs) = JBool(TRUE)

(***************************************************************************)
(* C24: in setup, the legacy opencode.json is renamed only after           *)
(* opencode.jsonc has been written successfully.  If the write fails the   *)
(* legacy file is left in place; if the rename fails the report still      *)
(* states that setup completed and that opencode.jsonc was written,        *)
(* alongside an error about the legacy rename.                             *)
(***************************************************************************)
LegacyMoved == files.legacy # found.legacy \/ files.backups # found.backups

C24_RenameAfterWrite ==
  cmd.name = "setup" =>
    /\ LegacyMoved =>
         /\ report.complete
         /\ cmd.world.write = "none"
         /\ CompleteFile(files.jsonc)
    /\ report.lines = ERR_WRITE => ~LegacyMoved
    /\ (report.complete /\ found.legacy.kind = "json" /\ cmd.world.renameFails) =>
         /\ report.lines[1] = <<"palantir-mcp setup complete.">>
         /\ ReportsRenameError
         /\ CompleteFile(files.jsonc)
         /\ ~LegacyMoved

\* the write worked and the rename of the legacy file failed: opencode.jsonc
\* is new, opencode.json is in place, and the report says both
C24_Witness ==
  /\ cmd.name = "setup"
  /\ cmd.world.renameFails
  /\ report.complete
  /\ found.legacy = FileOf(LEGACY_DOC)
  /\ found.jsonc = FileMissing
  /\ CompleteFile(files.jsonc)
  /\ files.legacy = found.legacy
  /\ report.lines[1] = <<"palantir-mcp setup complete.">>
  /\ ReportsRenameError


(***************************************************************************)
(* C25: withConcurrencyLimit never has more than `limit` tasks running at  *)
(* the same time, and starts every task of the queue exactly once: at any  *)
(* moment the tasks called and not yet finished number `running`, which is *)
(* at most `limit`; no task is called twice; the tasks called are the      *)
(* first `index` of the queue; and in the end every task has been called.  *)
(***************************************************************************)
Running == {i \in 1..Len(pool.tasks) : pool.tasks[i] \in {"pending", "settled", "recorded"}}

AwaitingPromise == {i \in 1..Len(pool.tasks) : pool.tasks[i] = "pending"}

StartedOnce(i) == pool.starts[i] = 1

PoolBounded ==
  /\ Cardinality(Running) = pool.running
  /\ pool.running <= pool.limit
  /\ \A i \in 1..Len(pool.tasks) :
       /\ pool.starts[i] = (IF i <= pool.index THEN 1 ELSE 0)
       /\ (pool.tasks[i] = "queued") = (pool.starts[i] = 0)

C25_LimitAndOnce ==
  /\ []PoolBounded
  /\ <>(\A i \in 1..Len(pool.tasks) : StartedOnce(i))

\* three tasks under a limit of two: one has finished, the third was started
\* in its place, and two are running again
C25_Witness ==
  /\ Len(pool.tasks) = 3 /\ pool.limit = 2
  /\ pool.completed = 1 /\ pool.index = 3
  /\ Cardinality(Running) = 2


(***************************************************************************)
(* C26: with limit >= 1 and tasks that each settle, withConcurrencyLimit   *)
(* eventually resolves, and only after every task has settled; what it     *)
(* resolves with holds at i the outcome of task i (the fulfilled value or  *)
(* the rejection reason); a rejected task neither cancels nor skips any    *)
(* other task: every task was called once and ran to its end.              *)
(***************************************************************************)
Resolved == pool.called /\ pool.resolved # <<>>

OutcomeRecorded(results, i) ==
  /\ results[i].status = pool.settled[i].status
  /\ pool.settled[i].status = "fulfilled" => results[i].value = pool.settled[i].value
  /\ pool.settled[i].status = "rejected" => results[i].reason = pool.settled[i].reason

ResolvedWithOutcomes ==
  Resolved =>
    /\ Len(pool.resolved) = 1
    /\ Len(pool.resolved[1]) = Len(pool.tasks)
    /\ \A i \in 1..Len(pool.tasks) :
         /\ pool.starts[i] = 1
         /\ pool.tasks[i] = "finished"
         /\ pool.settled[i].status \in {"fulfilled", "rejected"}
         /\ OutcomeRecorded(pool.resolved[1], i)

C26_DrainsThenResolves == []ResolvedWithOutcomes /\ <>Resolved

\* four tasks: the first was rejected, a later one fulfilled, and the call
\* has resolved
C26_Witness ==
  /\ Resolved /\ Len(pool.tasks) = 4 /\ pool.limit \in 1..MaxLimit
  /\ pool.resolved[1][1].status = "rejected"
  /\ \E i \in 2..4 : pool.resolved[1][i].status = "fulfilled"


(***************************************************************************)
(* C27: fetchWithRetry performs at most MAX_RETRIES + 1 = 4 fetch attempts *)
(* and always terminates: it returns on the first ok response, throws      *)
(* immediately without retrying on a non-ok status below 500, retries only *)
(* after a network error or a status >= 500, and throws the last error     *)
(* once the attempts are exhausted.                                        *)
(***************************************************************************)
FetchDone == retry.pc \in {"returned", "threw"}

IsOk(fetched) == ~fetched.threw /\ fetched.response.ok

IsClientFailure(fetched) ==
  ~fetched.threw /\ ~fetched.response.ok /\ fetched.response.status < 500

IsRetryableFailure(fetched) ==
  fetched.threw \/ (~fetched.response.ok /\ fetched.response.status >= 500)

\* the error the attempt that met `fetched` left in lastError
ErrorOf(fetched) ==
  IF fetched.threw THEN fetched.error ELSE HttpError(fetched.response, retry.url)

RetryRules ==
  retry.pc # "idle" =>
    /\ retry.fetches = Len(retry.met)
    /\ retry.fetches <= MAX_RETRIES + 1
    /\ MAX_RETRIES + 1 = 4
    \* every attempt but the last met a network error or a status >= 500
    /\ \A k \in 1..(Len(retry.met) - 1) : IsRetryableFailure(retry.met[k])
    /\ \A k \in 1..Len(retry.met) :
         /\ IsOk(retry.met[k]) =>
              /\ k = Len(retry.met)
              /\ retry.pc = "returned"
              /\ retry.outcome = [kind |-> "returned", response |-> retry.met[k].response]
         /\ IsClientFailure(retry.met[k]) =>
              /\ k = Len(retry.met)
              /\ retry.pc = "threw"
              /\ retry.outcome = [kind |-> "threw", error |-> ErrorOf(retry.met[k])]
         /\ (IsRetryableFailure(retry.met[k]) /\ k = MAX_RETRIES + 1) =>
              /\ retry.pc = "threw"
              /\ retry.outcome = [kind |-> "threw", error |-> ErrorOf(retry.met[k])]
         /\ (IsRetryableFailure(retry.met[k]) /\ k < MAX_RETRIES + 1 /\ k = Len(retry.met)) =>
              retry.pc \in {"delay", "fetch"}
    /\ (retry.pc = "returned") = (retry.outcome.kind = "returned")
    /\ (retry.pc = "threw") = (retry.outcome.kind = "threw")
    /\ FetchDone => retry.met # <<>>

C27_BoundedRetry == []RetryRules /\ <>FetchDone

\* a network error, then two 5xx answers and a last network error: the
\* fourth attempt's error is thrown
C27_Witness ==
  /\ retry.pc = "threw" /\ retry.fetches = 4
  /\ retry.met[1].threw /\ ~retry.met[2].threw /\ ~retry.met[3].threw
  /\ retry.met[2].response.status = 503 /\ retry.met[3].response.status = 500
  /\ ~retry.met[4].threw /\ retry.met[4].response.status = 503
  /\ retry.outcome.error = HttpError(Response(503), retry.url)
  /\ Len(retry.waited) = 3


(***************************************************************************)
(* C28: across any sequence of setup and rescan runs with changing tool    *)
(* lists, no key is ever removed from a managed agent's tools map, and the *)
(* toggles of tools that are no longer discovered persist with their       *)
(* value: each run keeps every key of each managed agent's tools object,   *)
(* and keeps the value of every key that is not the toggle of a tool in    *)
(* that run's list.                                                        *)
(***************************************************************************)
DiscoveredKeys(toolNames) == {toolKey(toolNames[i]) : i \in 1..Len(toolNames)}

ToolsMapKept(before, after, toolNames) ==
  isRecord(before) =>
    /\ isRecord(after)
    /\ KeySet(before) \subseteq KeySet(after)
    /\ \A k \in KeySet(before) \ DiscoveredKeys(toolNames) : Get(after, k) = Get(before, k)

C28_TogglesNeverRemoved ==
  [][\A agentName \in ManagedAgentNames :
       ToolsMapKept(Field(ManagedAgent(doc, agentName), K_tools),
                    Field(ManagedAgent(doc', agentName), K_tools),
                    options'.toolNames)]_vars

\* the second run discovered only a; the toggle of b that the document had
\* before it is still in both agents' maps, with its value
C28_Witness ==
  /\ runs = 2
  /\ options.toolNames = <<"a">>
  /\ \A agentName \in ManagedAgentNames :
       /\ toolKey("b") \in ToggleKeysOf(ToolsOf(given, agentName))
       /\ Get(ToolsOf(doc, agentName), toolKey("b")) = Get(ToolsOf(given, agentName), toolKey("b"))


(***************************************************************************)
(* C29: in setup, when the existing (merged) document already has a local  *)
(* mcp['palantir-mcp'] entry whose --foundry-api-url argument normalizes   *)
(* successfully, tool discovery is run against that existing URL and not   *)
(* against the URL supplied on the command; the supplied URL is used for   *)
(* discovery only when no such existing URL is found.  Discovery is run    *)
(* once, and only after the supplied URL, the token and the files were     *)
(* accepted.                                                               *)
(***************************************************************************)
SetupDiscovered == cmd.name = "setup" /\ report.asked # <<>>

C29_DiscoveryUsesExistingUrl ==
  /\ SetupDiscovered =>
       LET existing == PointsTo(ServerOf(MergedFound))
       IN /\ Len(report.asked) = 1
          /\ existing # {} => report.asked[1] \in existing
          /\ existing = {} => report.asked[1] = SuppliedUrl
          /\ report.asked[1] # SuppliedUrl => existing # {}
  /\ SetupCompleted => SetupDiscovered

\* setup for URL_TWO met the entry for URL_ONE and asked the server at
\* URL_ONE for its tools
C29_Witness ==
  /\ SetupCompleted
  /\ ServerOf(MergedFound) = SERVER_ONE
  /\ SuppliedUrl = URL_TWO
  /\ report.asked = <<URL_ONE>>


(***************************************************************************)
(* C30 as stated: in rescan, a managed agent description that neither      *)
(* contains the generated marker nor equals the default description is     *)
(* left unchanged, and after setup every managed agent description ends    *)
(* with the generated annotation.                                          *)
(* This does not hold: rescan annotates a description that is the default  *)
(* description with white space around it.                                 *)
(***************************************************************************)
C30_Original ==
  op # "init" =>
    \A agentName \in ManagedAgentNames :
      LET before == DescriptionOf(given, agentName)
          after == DescriptionOf(doc, agentName)
      IN /\ (/\ op = "rescan"
             /\ before.t = "string"
             /\ MarkerCount(before.s) = 0
             /\ before.s # defaultDescription(agentName)) => after = before
         /\ op = "setup" =>
              /\ after.t = "string"
              /\ EndsWith(after.s, buildGeneratedNote(options.profile))

(***************************************************************************)
(* C30: setup and rescan differ on user-written descriptions.  In rescan,  *)
(* a managed agent description that does not contain the generated marker  *)
(* and, with the white space at its ends removed, is not the default       *)
(* description is left unchanged; every other description is annotated.    *)
(* Setup annotates every managed agent description: a description without  *)
(* the marker becomes its trimmed text, ' | ' and the annotation of the    *)
(* run's profile, or the annotation alone when the trimmed text is empty.  *)
(***************************************************************************)
Annotated(text, profile) ==
  IF trim(text) # <<>>
    THEN trim(text) \o <<" ", "|", " ">> \o buildGeneratedNote(profile)
    ELSE buildGeneratedNote(profile)

C30_SetupAnnotatesRescanKeeps ==
  op # "init" =>
    \A agentName \in ManagedAgentNames :
      LET before == DescriptionOf(given, agentName)
          after == DescriptionOf(doc, agentName)
          userWritten == /\ before.t = "string"
                         /\ MarkerCount(before.s) = 0
                         /\ trim(before.s) # defaultDescription(agentName)
      IN /\ after.t = "string"
         /\ (op = "rescan" /\ userWritten) => after = before
         /\ (op = "setup" \/ ~userWritten) =>
              EndsWith(after.s, buildGeneratedNote(options.profile))
         /\ (op = "setup" /\ before.t = "string" /\ MarkerCount(before.s) = 0) =>
              after.s = Annotated(before.s, options.profile)
         /\ (op = "rescan" /\ before.t = "string" /\ MarkerCount(before.s) = 0
               /\ trim(before.s) = defaultDescription(agentName)) =>
              after.s = Annotated(before.s, options.profile)

\* a rescan left the description 'my agent' as it was, and the setup that
\* followed annotated it
C30_Witness ==
  /\ op = "setup" /\ runs = 2
  /\ DescriptionOf(given, "foundry") = JStr(<<"my", " ", "agent">>)
  /\ DescriptionOf(doc, "foundry")
       = JStr(<<"my", " ", "agent", " ", "|", " ">> \o buildGeneratedNote(options.profile))

====
